---- MODULE Spec2Model ----
(***************************************************************************)
(* Verification model of scrape_rethdb_data: pool state read directly from  *)
(* a reth database (plain storage state, storage history index, storage     *)
(* changesets) and event logs swept from headers / body indices / receipts. *)
(*                                                                          *)
(* Representation.                                                          *)
(*  - A 256-bit word (U256) is the set of its set bit positions, a subset   *)
(*    of 0..255; U256::ZERO is {}.                                          *)
(*  - An Option is a sequence of length 0 (None) or 1 (Some).               *)
(*  - A 32-byte storage key (B256) is an integer; keys are compared as the  *)
(*    database compares them (big-endian bytes = numeric order).            *)
(*    keccak256 is modelled as an injective map into that key space.        *)
(*  - Addresses and block heights are integers.                             *)
(***************************************************************************)
EXTENDS Integers, Sequences, FiniteSets, TLC

VARIABLES db, req, pc, out, reads

vars == <<db, req, pc, out, reads>>

----------------------------------------------------------------------------
(* Bounds of the model *)

\* Height of the chain tip held by the database.
MaxBlock == 4

\* Capacity of one history-index shard (reth: NUM_OF_INDICES_IN_SHARD).
ShardSize == 2

----------------------------------------------------------------------------
(* Generic helpers *)

None == <<>>
Some(x) == <<x>>

Min(S) == CHOOSE x \in S : \A y \in S : x <= y

\* The elements of a finite set of integers in ascending order.
RECURSIVE SortedSeq(_)
SortedSeq(S) ==
    IF S = {} THEN <<>>
    ELSE LET m == Min(S) IN <<m>> \o SortedSeq(S \ {m})

ZERO == {}

\* The element of a singleton.  The({e : v \in {x}}) is e with v naming the
\* value of x: x is computed once, however often e uses v.
The(S) == CHOOSE x \in S : TRUE

----------------------------------------------------------------------------
(* storage.rs: slot derivation *)

V3_SLOT0 == 0
V3_LIQUIDITY == 4
V3_TICKS == 5
V3_TICK_BITMAP == 6
V2_RESERVE == 8

simple_slot(slot) == slot

\* keccak256(abi.encode(x, mapping_slot)): x is sign-extended to 32 bytes, so
\* a word position and a tick of equal value hash alike; the model maps the
\* pair injectively into the keys above every simple slot and pool base slot.
KeccakPair(x, mapping_slot) == 512 + (x + 887272) * 512 + mapping_slot

bitmap_slot(word_pos, mapping_slot) == KeccakPair(word_pos, mapping_slot)
tick_slot(tick, mapping_slot) == KeccakPair(tick, mapping_slot)

\* storage.rs factories::PANCAKESWAP_V3, as its 20 bytes.
PANCAKESWAP_V3 ==
    <<11, 251, 207, 159, 164, 249, 197, 107, 15, 64, 166, 113, 173, 64, 224, 128, 90, 9, 24, 101>>

PANCAKESWAP_V3_SLOT0 == 0
PANCAKESWAP_V3_LIQUIDITY == 5
PANCAKESWAP_V3_TICKS == 6
PANCAKESWAP_V3_TICK_BITMAP == 7

\* The default slots whatever the factory.
DefaultSlotsOnly(factory) ==
    [slot0 |-> V3_SLOT0, liquidity |-> V3_LIQUIDITY, ticks |-> V3_TICKS,
     tick_bitmap |-> V3_TICK_BITMAP]

\* factory is an Option<Address>, an address being its 20 bytes.
v3_slots_for_factory(factory) ==
    IF factory # None /\ factory[1] = PANCAKESWAP_V3
    THEN [slot0 |-> PANCAKESWAP_V3_SLOT0, liquidity |-> PANCAKESWAP_V3_LIQUIDITY,
          ticks |-> PANCAKESWAP_V3_TICKS, tick_bitmap |-> PANCAKESWAP_V3_TICK_BITMAP]
    ELSE [slot0 |-> V3_SLOT0, liquidity |-> V3_LIQUIDITY, ticks |-> V3_TICKS,
          tick_bitmap |-> V3_TICK_BITMAP]

\* Address::from_str: a string is a sequence of characters; an optional "0x",
\* then exactly 40 hex digits of either case, two per byte.  None: a parse
\* error.
HexLower == <<"0", "1", "2", "3", "4", "5", "6", "7", "8", "9",
              "a", "b", "c", "d", "e", "f">>
HexUpper == <<"0", "1", "2", "3", "4", "5", "6", "7", "8", "9",
              "A", "B", "C", "D", "E", "F">>
IsHexDigit(c) == \E v \in 1..16 : HexLower[v] = c \/ HexUpper[v] = c
HexValue(c) == (CHOOSE v \in 1..16 : HexLower[v] = c \/ HexUpper[v] = c) - 1

ParseAddress(str) ==
    LET digits == IF Len(str) >= 2 /\ str[1] = "0" /\ str[2] = "x"
                  THEN SubSeq(str, 3, Len(str)) ELSE str
    IN IF Len(digits) = 40 /\ \A i \in 1..40 : IsHexDigit(digits[i])
       THEN Some([i \in 1..20 |->
                     16 * HexValue(digits[2 * i - 1]) + HexValue(digits[2 * i])])
       ELSE None

V4_POOLS_SLOT == 6
V4_SLOT0_OFFSET == 0
V4_LIQUIDITY_OFFSET == 3
V4_TICKS_OFFSET == 4
V4_TICK_BITMAP_OFFSET == 5

\* keccak256(abi.encode(pool_id, POOLS_SLOT)); pool ids are small integers,
\* and the base slots lie 8 apart, between the simple slots and the pair keys.
pool_base_slot(pool_id) == 256 + 8 * (pool_id + V4_POOLS_SLOT)
add_offset(slot, offset) == slot + offset
v4_base_slot(pool_id) == pool_base_slot(pool_id)
v4_slot0_slot(pool_id) == add_offset(pool_base_slot(pool_id), V4_SLOT0_OFFSET)
v4_liquidity_slot(pool_id) == add_offset(pool_base_slot(pool_id), V4_LIQUIDITY_OFFSET)
v4_tick_slot(pool_id, tick) ==
    KeccakPair(tick, add_offset(pool_base_slot(pool_id), V4_TICKS_OFFSET))
v4_bitmap_slot(pool_id, word_pos) ==
    KeccakPair(word_pos, add_offset(pool_base_slot(pool_id), V4_TICK_BITMAP_OFFSET))

----------------------------------------------------------------------------
(* 32-bit signed arithmetic of tick_math.rs *)

Abs(x) == IF x < 0 THEN -x ELSE x

\* Rust's `/` on i32: truncation toward zero (divisor > 0).
TruncDiv(a, b) == IF a >= 0 THEN a \div b ELSE -((-a) \div b)

\* `as i16`: the low 16 bits, two's complement.
AsI16(x) == ((x + 32768) % 65536) - 32768

Byte(x, i) == (x \div (256 ^ i)) % 256

\* a * b modulo 2^32 as an i32, for 0 <= a, b < 2^31, by byte-wise long
\* multiplication (no intermediate leaves the 32-bit range).
WrapMulNat(a, b) ==
    LET c0 == Byte(a, 0) * Byte(b, 0)
        c1 == Byte(a, 0) * Byte(b, 1) + Byte(a, 1) * Byte(b, 0) + c0 \div 256
        c2 == Byte(a, 0) * Byte(b, 2) + Byte(a, 1) * Byte(b, 1)
                + Byte(a, 2) * Byte(b, 0) + c1 \div 256
        c3 == Byte(a, 0) * Byte(b, 3) + Byte(a, 1) * Byte(b, 2)
                + Byte(a, 2) * Byte(b, 1) + Byte(a, 3) * Byte(b, 0) + c2 \div 256
        r3 == c3 % 256
    IN (c0 % 256) + 256 * (c1 % 256) + 65536 * (c2 % 256)
         + 16777216 * (IF r3 >= 128 THEN r3 - 256 ELSE r3)

WrapNeg(x) == IF x = -2147483647 - 1 THEN x ELSE -x

\* Whether a * b lies in the i32 range (b >= 1).
MulFitsI32(a, b) ==
    LET n == Abs(a)
    IN \/ a = 0
       \/ b <= 2147483647 \div n
       \/ a < 0 /\ 2147483647 % n = n - 1 /\ b = (2147483647 \div n) + 1

\* `compressed * tick_spacing` in i32: the wrapped product, and whether the
\* multiplication overflowed (a panic when the build checks overflow).
MulI32(a, b) ==
    [overflow |-> ~MulFitsI32(a, b),
     value |-> IF a >= 0 THEN WrapMulNat(a, b) ELSE WrapNeg(WrapMulNat(-a, b))]

----------------------------------------------------------------------------
(* tick_math.rs *)

MIN_TICK == -887272
MAX_TICK == 887272

\* The word position with the shift replaced by a truncating division.
tick_to_word_pos_truncating(tick, tick_spacing) ==
    LET compressed == TruncDiv(tick, tick_spacing)
    IN AsI16(TruncDiv(compressed, 256))

tick_to_word_pos(tick, tick_spacing) ==
    LET compressed == TruncDiv(tick, tick_spacing)
    IN AsI16(compressed \div 256)

\* compressed.rem_euclid(256) as u8.
tick_to_bit_pos(tick, tick_spacing) ==
    LET compressed == TruncDiv(tick, tick_spacing)
    IN compressed % 256

generate_word_positions(tick_spacing) ==
    LET min_word == tick_to_word_pos(MIN_TICK, tick_spacing)
        max_word == tick_to_word_pos(MAX_TICK, tick_spacing)
    IN [i \in 1..(max_word - min_word + 1) |-> min_word + i - 1]

\* U256::to_be_bytes::<32>(): byte i (0 = most significant) as the set of its
\* set bits 0..7.
to_be_bytes(word) ==
    [i \in 0..31 |-> {j \in 0..7 : (8 * (31 - i) + j) \in word}]

\* The (byte_idx, bit_in_byte) pairs in the order the two loops visit them.
BitLoop == [n \in 1..256 |-> [byte_idx |-> (n - 1) \div 8, bit_in_byte |-> (n - 1) % 8]]

\* extract_ticks_from_bitmap_u256: [overflow, ticks]; overflow says that some
\* multiplication left the i32 range.
extract_ticks_from_bitmap_u256(word_pos, bitmap_bytes, tick_spacing) ==
    The({
    The({
    The({
        [overflow |-> \E n \in 1..Len(all) : all[n].overflow,
         ticks |-> [n \in 1..Len(kept) |-> kept[n].value]]
    : kept \in {SelectSeq(all, LAMBDA m : m.value >= MIN_TICK /\ m.value <= MAX_TICK)} })
    : all \in {[n \in 1..Len(set) |->
                  MulI32(word_pos * 256 + (set[n].byte_idx * 8 + set[n].bit_in_byte),
                         tick_spacing)]} })
    : set \in {The({SelectSeq(BitLoop, LAMBDA p : p.bit_in_byte \in bytes[31 - p.byte_idx])
                    : bytes \in {bitmap_bytes}})} })

----------------------------------------------------------------------------
(* reth tables and cursors, as historical.rs uses them *)

\* Lexicographic order of StorageShardedKey (address, storage key, highest block).
ShardKeyLeq(a1, k1, h1, a2, k2, h2) ==
    \/ a1 < a2
    \/ a1 = a2 /\ k1 < k2
    \/ a1 = a2 /\ k1 = k2 /\ h1 <= h2

\* cursor.seek on StoragesHistory: the first shard whose key is >= the sought key.
HistorySeek(history, address, storage_key, block_number) ==
    LET ge == {s \in history :
                 ShardKeyLeq(address, storage_key, block_number,
                             s.address, s.key, s.highest)}
    IN IF ge = {} THEN None
       ELSE Some(CHOOSE s \in ge : \A t \in ge :
                   ShardKeyLeq(s.address, s.key, s.highest,
                               t.address, t.key, t.highest))

\* BlockNumberList::rank: the number of listed blocks <= n.
Rank(blocks, n) == Cardinality({b \in blocks : b <= n})

\* BlockNumberList::select: the n-th smallest listed block (0-indexed), if any.
Select(blocks, n) ==
    IF n < Cardinality(blocks)
    THEN Some(CHOOSE b \in blocks : Cardinality({c \in blocks : c < b}) = n)
    ELSE None

\* seek_by_key_subkey on a DupSort table: among the entries under exactly the
\* given key, the one with the smallest subkey >= the requested subkey.
DupSeek(entries, subkey) ==
    LET ge == {e \in entries : e.key >= subkey}
    IN IF ge = {} THEN None
       ELSE Some(CHOOSE e \in ge : \A f \in ge : e.key <= f.key)

PlainEntries(d, address) ==
    {[key |-> e.key, value |-> e.value] : e \in {p \in d.plain : p.address = address}}

ChangesetEntries(d, block, address) ==
    {[key |-> e.key, value |-> e.value] :
        e \in {c \in d.changesets : c.block = block /\ c.address = address}}

\* A plain state read that takes whatever entry the seek lands on.
PlainUnverified(d, address, storage_key) ==
    LET entry == DupSeek(PlainEntries(d, address), storage_key)
    IN IF entry # None THEN entry[1].value ELSE ZERO

\* historical.rs step 4: plain state read with the subkey verified.
PlainVerified(d, address, storage_key) ==
    LET entry == DupSeek(PlainEntries(d, address), storage_key)
    IN IF entry # None /\ entry[1].key = storage_key THEN entry[1].value ELSE ZERO

\* Steps 1-3 with the changeset entry taken whatever its subkey is.
ChangesetLookupAnyKey(d, address, storage_key, block_number) ==
    LET hit == HistorySeek(d.history, address, storage_key, block_number)
    IN IF hit # None /\ hit[1].address = address /\ hit[1].key = storage_key
       THEN LET rank == Rank(hit[1].blocks, block_number)
                change_block == Select(hit[1].blocks, rank)
            IN IF change_block # None
               THEN LET entry == DupSeek(ChangesetEntries(d, change_block[1], address),
                                         storage_key)
                    IN IF entry # None THEN Some(entry[1].value) ELSE None
               ELSE None
       ELSE None

\* historical.rs steps 1-3: the pre-change value of the first change after
\* block_number, found in the shard the history seek lands on.
ChangesetLookup(d, address, storage_key, block_number) ==
    LET hit == HistorySeek(d.history, address, storage_key, block_number)
    IN IF hit # None /\ hit[1].address = address /\ hit[1].key = storage_key
       THEN LET rank == Rank(hit[1].blocks, block_number)
                change_block == Select(hit[1].blocks, rank)
            IN IF change_block # None
               THEN LET entry == DupSeek(ChangesetEntries(d, change_block[1], address),
                                         storage_key)
                    IN IF entry # None /\ entry[1].key = storage_key
                       THEN Some(entry[1].value)
                       ELSE None
               ELSE None
       ELSE None

get_storage_at_block(d, address, storage_key, block_number) ==
    LET found == ChangesetLookup(d, address, storage_key, block_number)
    IN IF found # None THEN found[1]
       ELSE PlainVerified(d, address, storage_key)

----------------------------------------------------------------------------
(* decoding.rs and the parsers of readers.rs *)

\* Bits lo .. lo + width - 1 of a word, shifted down to bit 0.
Bits(word, lo, width) == {b - lo : b \in {c \in word : lo <= c /\ c < lo + width}}

\* The number a (narrow) bit set stands for.
RECURSIVE ToNat(_)
ToNat(bits) ==
    IF bits = {} THEN 0
    ELSE LET b == CHOOSE x \in bits : TRUE IN 2 ^ b + ToNat(bits \ {b})

\* The 24-bit field taken as it is, without sign extension.
ZeroExtend24(tick_raw) == tick_raw

\* Sign extension of a 24-bit field to i32.
SignExtend24(tick_raw) ==
    IF (tick_raw \div 8388608) % 2 # 0 THEN tick_raw - 16777216 ELSE tick_raw

decode_slot0(storage_value) ==
    [raw_data |-> Some(storage_value),
     sqrt_price_x96 |-> Bits(storage_value, 0, 160),
     tick |-> SignExtend24(ToNat(Bits(storage_value, 160, 24))),
     observation_index |-> ToNat(Bits(storage_value, 184, 16)),
     observation_cardinality |-> ToNat(Bits(storage_value, 200, 16)),
     observation_cardinality_next |-> ToNat(Bits(storage_value, 216, 16)),
     fee_protocol |-> ToNat(Bits(storage_value, 232, 8)),
     unlocked |-> Bits(storage_value, 240, 1) # {}]

\* readers.rs parse_slot0; raw_data is filled in by the caller.
parse_slot0(value) ==
    [raw_data |-> None,
     sqrt_price_x96 |-> Bits(value, 0, 160),
     tick |-> SignExtend24(ToNat(Bits(value, 160, 24))),
     observation_index |-> ToNat(Bits(value, 184, 16)),
     observation_cardinality |-> ToNat(Bits(value, 200, 16)),
     observation_cardinality_next |-> ToNat(Bits(value, 216, 16)),
     fee_protocol |-> ToNat(Bits(value, 232, 8)),
     unlocked |-> ToNat(Bits(value, 240, 8)) # 0]

\* An i128 as sign and magnitude; the magnitude is a bit set (up to 2^127).
I128(negative, magnitude) == [negative |-> negative, magnitude |-> magnitude]

\* (!raw).wrapping_add(1) on u128, for raw # 0: the bits below the lowest set
\* bit stay clear, that bit stays set, the bits above it are inverted.
TwosComplement128(raw) ==
    LET low == Min(raw)
    IN {low} \cup {b \in (low + 1)..127 : b \notin raw}

\* decode_tick_info: [overflow, tick]; overflow says that negating the i128
\* left its range (liquidity_net_raw = 2^127), a panic when the build checks
\* overflow and -2^127 when it wraps.
decode_tick_info(tick, storage_value) ==
    LET liquidity_net_raw == Bits(storage_value, 128, 128)
        negative == 127 \in liquidity_net_raw
    IN [overflow |-> liquidity_net_raw = {127},
        tick |->
          [tick |-> tick,
           raw_data |-> Some(storage_value),
           liquidity_gross |-> Bits(storage_value, 0, 128),
           liquidity_net |->
               IF negative THEN I128(TRUE, TwosComplement128(liquidity_net_raw))
               ELSE I128(FALSE, liquidity_net_raw),
           fee_growth_outside_0_x128 |-> ZERO,
           fee_growth_outside_1_x128 |-> ZERO,
           tick_cumulative_outside |-> 0,
           seconds_per_liquidity_outside_x128 |-> ZERO,
           seconds_outside |-> 0,
           initialized |-> storage_value # ZERO]]

\* readers.rs parse_tick_data: the value is ignored.
parse_tick_data(tick, value) ==
    [tick |-> tick,
     raw_data |-> None,
     liquidity_gross |-> {},
     liquidity_net |-> I128(FALSE, {}),
     fee_growth_outside_0_x128 |-> ZERO,
     fee_growth_outside_1_x128 |-> ZERO,
     tick_cumulative_outside |-> 0,
     seconds_per_liquidity_outside_x128 |-> ZERO,
     seconds_outside |-> 0,
     initialized |-> TRUE]

decode_v2_reserves(storage_value) ==
    [raw_data |-> Some(storage_value),
     reserve0 |-> Bits(storage_value, 0, 112),
     reserve1 |-> Bits(storage_value, 112, 112),
     block_timestamp_last |-> Bits(storage_value, 224, 32)]

\* uN::from_be_bytes of bytes first..last of a big-endian byte array.
FromBeBytes(bytes, first, last) ==
    UNION {{8 * (last - i) + j : j \in bytes[i]} : i \in first..last}

\* Uint::to::<u128>(): panics when the value does not fit in 128 bits.
FitsU128(word) == \A b \in word : b < 128

----------------------------------------------------------------------------
(* types.rs: PoolOutput constructors *)

new_v2(address, reserves) ==
    [address |-> address, protocol |-> "UniswapV2", pool_id |-> None,
     reserves |-> Some(reserves), slot0 |-> None, liquidity |-> None,
     ticks |-> <<>>, bitmaps |-> <<>>]

\* liquidity is an Option here: readers.rs constructs V3/V4 outputs without one.
new_v3(address, slot0, liquidity, ticks, bitmaps) ==
    [address |-> address, protocol |-> "UniswapV3", pool_id |-> None,
     reserves |-> None, slot0 |-> Some(slot0), liquidity |-> liquidity,
     ticks |-> ticks, bitmaps |-> bitmaps]

new_v4(address, pool_id, slot0, liquidity, ticks, bitmaps) ==
    [address |-> address, protocol |-> "UniswapV4", pool_id |-> Some(pool_id),
     reserves |-> None, slot0 |-> Some(slot0), liquidity |-> liquidity,
     ticks |-> ticks, bitmaps |-> bitmaps]

\* Result<PoolOutput>, or the panic that ends the call.
Ok(value) == [status |-> "ok", value |-> <<value>>]
Err(msg) == [status |-> "err", value |-> <<msg>>]
Panic(msg) == [status |-> "panic", value |-> <<msg>>]

\* The store reads a call issued, in order, next to its result: one entry per
\* cursor seek of the current-state readers, one per get_storage_at_block
\* call of the historical readers.
Issued(result, issued) ==
    [status |-> result.status, value |-> result.value, reads |-> issued]

\* The reads of one account under the given storage keys.
Seeks(address, keys) ==
    The({[i \in 1..Len(k) |-> [address |-> address, key |-> k[i]]] : k \in {keys}})

----------------------------------------------------------------------------
(* The bitmap / tick loops shared by the four V3/V4 readers *)

RECURSIVE Flatten(_)
Flatten(seqs) ==
    The({IF s = <<>> THEN <<>> ELSE Head(s) \o Flatten(Tail(s)) : s \in {seqs}})

\* "Read all bitmaps": values[i] is the word read for word_positions[i];
\* the nonzero words are kept.
ReadBitmaps(word_positions, values) ==
    The({SelectSeq([i \in 1..Len(wp) |-> [word_pos |-> wp[i], bitmap |-> v[i]]],
                   LAMBDA b : b.bitmap # ZERO)
         : wp \in {word_positions}, v \in {values}})

\* "Extract initialized ticks from bitmaps".
ExtractTickValues(bitmaps, tick_spacing) ==
    The({[overflow |-> \E i \in 1..Len(per) : per[i].overflow,
          ticks |-> Flatten([i \in 1..Len(per) |-> per[i].ticks])]
         : per \in {The({[i \in 1..Len(b) |->
                             extract_ticks_from_bitmap_u256(b[i].word_pos,
                                 to_be_bytes(b[i].bitmap), tick_spacing)]
                         : b \in {bitmaps}})}})

\* "Read tick data for each initialized tick": values[i] is the word read for
\* tick_values[i]; the ticks whose word is nonzero are kept, each with its word.
ReadTickWords(tick_values, values) ==
    The({SelectSeq([i \in 1..Len(t) |-> [tick |-> t[i], value |-> v[i]]],
                   LAMBDA w : w.value # ZERO)
         : t \in {tick_values}, v \in {values}})

----------------------------------------------------------------------------
(* readers.rs: the current-state readers *)

\* cursor.seek_by_key_subkey(..).map(|entry| entry.value): the value of the
\* entry the seek returns, whatever its subkey.
SeekValue(d, address, slot) ==
    LET entry == DupSeek(PlainEntries(d, address), slot)
    IN IF entry # None THEN Some(entry[1].value) ELSE None

SeekValueOrZero(d, address, slot) ==
    LET v == SeekValue(d, address, slot) IN IF v # None THEN v[1] ELSE ZERO

\* A V2 read that asks for a tick spacing as the V3 and V4 reads do.
read_v2_pool_spaced(d, pool) ==
    IF pool.tick_spacing = None
    THEN Issued(Err("V2 pool missing tick_spacing"), <<>>)
    ELSE Issued(Ok(new_v2(pool.address,
                          [raw_data |-> None, reserve0 |-> 0, reserve1 |-> 0,
                           block_timestamp_last |-> 0])),
                Seeks(pool.address, <<simple_slot(V2_RESERVE)>>))

read_v2_pool(d, pool) ==
    LET value == SeekValueOrZero(d, pool.address, simple_slot(V2_RESERVE))
        bytes == to_be_bytes(value)
        reserves == [raw_data |-> Some(value),
                     reserve0 |-> FromBeBytes(bytes, 18, 31),
                     reserve1 |-> FromBeBytes(bytes, 4, 17),
                     block_timestamp_last |-> FromBeBytes(bytes, 0, 3)]
    IN Issued(Ok(new_v2(pool.address, reserves)),
              Seeks(pool.address, <<simple_slot(V2_RESERVE)>>))

read_slot0(d, address, slot) ==
    LET value == SeekValueOrZero(d, address, simple_slot(slot))
    IN [parse_slot0(value) EXCEPT !.raw_data = Some(value)]

\* The tick records of the current-state readers.
CurrentTicks(words) ==
    The({[i \in 1..Len(w) |->
             [parse_tick_data(w[i].tick, w[i].value) EXCEPT !.raw_data = Some(w[i].value)]]
         : w \in {words}})

read_v3_pool(d, pool, overflow_checks) ==
    IF pool.tick_spacing = None
    THEN Issued(Err("V3 pool missing tick_spacing"), <<>>)
    ELSE
    The({
    The({
    The({
    The({
        IF tick_values.overflow /\ overflow_checks
        THEN Issued(Panic("attempt to multiply with overflow"),
                    Seeks(pool.address, <<simple_slot(V3_SLOT0)>> \o bitmap_keys))
        ELSE Issued(Ok(new_v3(pool.address, slot0, None,
                 CurrentTicks(ReadTickWords(tick_values.ticks,
                     [i \in 1..Len(tick_keys) |->
                         SeekValueOrZero(d, pool.address, tick_keys[i])])),
                 bitmaps)),
                    Seeks(pool.address, <<simple_slot(V3_SLOT0)>> \o bitmap_keys \o tick_keys))
    : tick_keys \in {[i \in 1..Len(tick_values.ticks) |->
                        tick_slot(tick_values.ticks[i], V3_TICKS)]} })
    : tick_values \in {ExtractTickValues(bitmaps, pool.tick_spacing[1])} })
    : bitmaps \in {ReadBitmaps(word_positions,
                       [i \in 1..Len(bitmap_keys) |->
                           SeekValueOrZero(d, pool.address, bitmap_keys[i])])} })
    : slot0 \in {read_slot0(d, pool.address, V3_SLOT0)},
      word_positions \in {generate_word_positions(pool.tick_spacing[1])},
      bitmap_keys \in {The({[i \in 1..Len(wp) |-> bitmap_slot(wp[i], V3_TICK_BITMAP)]
                             : wp \in {generate_word_positions(pool.tick_spacing[1])}})} })

read_v4_pool(d, pool, pool_id, overflow_checks) ==
    IF pool.tick_spacing = None
    THEN Issued(Err("V4 pool missing tick_spacing"), <<>>)
    ELSE
    The({
    The({
    The({
    The({
        IF tick_values.overflow /\ overflow_checks
        THEN Issued(Panic("attempt to multiply with overflow"),
                    Seeks(pool.address, <<v4_slot0_slot(pool_id)>> \o bitmap_keys))
        ELSE Issued(Ok(new_v4(pool.address, pool_id, slot0, None,
                 CurrentTicks(ReadTickWords(tick_values.ticks,
                     [i \in 1..Len(tick_keys) |->
                         SeekValueOrZero(d, pool.address, tick_keys[i])])),
                 bitmaps)),
                    Seeks(pool.address, <<v4_slot0_slot(pool_id)>> \o bitmap_keys \o tick_keys))
    : tick_keys \in {[i \in 1..Len(tick_values.ticks) |->
                        v4_tick_slot(pool_id, tick_values.ticks[i])]} })
    : tick_values \in {ExtractTickValues(bitmaps, pool.tick_spacing[1])} })
    : bitmaps \in {ReadBitmaps(word_positions,
                       [i \in 1..Len(bitmap_keys) |->
                           SeekValueOrZero(d, pool.address, bitmap_keys[i])])} })
    : slot0 \in {The({[parse_slot0(slot0_value) EXCEPT !.raw_data = Some(slot0_value)]
                     : slot0_value \in {SeekValueOrZero(d, pool.address,
                                            v4_slot0_slot(pool_id))}})},
      word_positions \in {generate_word_positions(pool.tick_spacing[1])},
      bitmap_keys \in {The({[i \in 1..Len(wp) |-> v4_bitmap_slot(pool_id, wp[i])]
                             : wp \in {generate_word_positions(pool.tick_spacing[1])}})} })

----------------------------------------------------------------------------
(* historical.rs: the readers at a block height *)

\* The number of tick words the tick loop of a historical reader has read
\* when decode_tick_info panics on one of them (all of them if none does).
TickReadsUntilPanic(tick_values, values) ==
    The({The({IF bad = {} THEN Len(t) ELSE Min(bad)
              : bad \in {{i \in 1..Len(t) :
                            v[i] # ZERO /\ decode_tick_info(t[i], v[i]).overflow}}})
         : t \in {tick_values}, v \in {values}})

\* The tick records of the historical readers, and whether decoding one of
\* them overflowed.
HistoricalTicks(words) ==
    The({[overflow |-> \E i \in 1..Len(decoded) : decoded[i].overflow,
          ticks |-> [i \in 1..Len(decoded) |-> decoded[i].tick]]
         : decoded \in {The({[i \in 1..Len(w) |-> decode_tick_info(w[i].tick, w[i].value)]
                             : w \in {words}})}})

read_v2_pool_at_block(d, pool, block_number) ==
    LET value == get_storage_at_block(d, pool.address, simple_slot(V2_RESERVE),
                                      block_number)
    IN Issued(Ok(new_v2(pool.address, decode_v2_reserves(value))),
              Seeks(pool.address, <<simple_slot(V2_RESERVE)>>))

\* The V3 and V4 historical readers: statements in source order, the first
\* panic wins.
read_v3_pool_at_block(d, pool, block_number, overflow_checks) ==
    IF pool.tick_spacing = None
    THEN Issued(Err("V3 pool missing tick_spacing"), <<>>)
    ELSE
    The({
    The({
    The({
    The({
    The({
    The({
        IF ~FitsU128(liquidity_value)
        THEN Issued(Panic("Uint conversion error"), Seeks(pool.address, head_keys))
        ELSE IF tick_values.overflow /\ overflow_checks
        THEN Issued(Panic("attempt to multiply with overflow"),
                    Seeks(pool.address, head_keys \o bitmap_keys))
        ELSE IF ticks.overflow /\ overflow_checks
        THEN Issued(Panic("attempt to negate with overflow"),
                    Seeks(pool.address, head_keys \o bitmap_keys
                              \o SubSeq(tick_keys, 1,
                                     TickReadsUntilPanic(tick_values.ticks, tick_words))))
        ELSE Issued(Ok(new_v3(pool.address, slot0, Some(liquidity_value), ticks.ticks, bitmaps)),
                    Seeks(pool.address, head_keys \o bitmap_keys \o tick_keys))
    : ticks \in {HistoricalTicks(ReadTickWords(tick_values.ticks, tick_words))} })
    : tick_words \in {[i \in 1..Len(tick_keys) |->
                         get_storage_at_block(d, pool.address, tick_keys[i],
                                              block_number)]} })
    : tick_keys \in {[i \in 1..Len(tick_values.ticks) |->
                        tick_slot(tick_values.ticks[i], V3_TICKS)]} })
    : tick_values \in {ExtractTickValues(bitmaps, pool.tick_spacing[1])} })
    : bitmaps \in {ReadBitmaps(word_positions,
                       [i \in 1..Len(bitmap_keys) |->
                           get_storage_at_block(d, pool.address, bitmap_keys[i],
                                                block_number)])} })
    : slot0 \in {decode_slot0(get_storage_at_block(d, pool.address,
                                  simple_slot(V3_SLOT0), block_number))},
      liquidity_value \in {get_storage_at_block(d, pool.address,
                               simple_slot(V3_LIQUIDITY), block_number)},
      head_keys \in {<<simple_slot(V3_SLOT0), simple_slot(V3_LIQUIDITY)>>},
      word_positions \in {generate_word_positions(pool.tick_spacing[1])},
      bitmap_keys \in {The({[i \in 1..Len(wp) |-> bitmap_slot(wp[i], V3_TICK_BITMAP)]
                             : wp \in {generate_word_positions(pool.tick_spacing[1])}})} })

read_v4_pool_at_block(d, pool, pool_id, block_number, overflow_checks) ==
    IF pool.tick_spacing = None
    THEN Issued(Err("V4 pool missing tick_spacing"), <<>>)
    ELSE
    The({
    The({
    The({
    The({
    The({
    The({
        IF ~FitsU128(liquidity_value)
        THEN Issued(Panic("Uint conversion error"), Seeks(pool.address, head_keys))
        ELSE IF tick_values.overflow /\ overflow_checks
        THEN Issued(Panic("attempt to multiply with overflow"),
                    Seeks(pool.address, head_keys \o bitmap_keys))
        ELSE IF ticks.overflow /\ overflow_checks
        THEN Issued(Panic("attempt to negate with overflow"),
                    Seeks(pool.address, head_keys \o bitmap_keys
                              \o SubSeq(tick_keys, 1,
                                     TickReadsUntilPanic(tick_values.ticks, tick_words))))
        ELSE Issued(Ok(new_v4(pool.address, pool_id, slot0, Some(liquidity_value), ticks.ticks,
                 bitmaps)),
                    Seeks(pool.address, head_keys \o bitmap_keys \o tick_keys))
    : ticks \in {HistoricalTicks(ReadTickWords(tick_values.ticks, tick_words))} })
    : tick_words \in {[i \in 1..Len(tick_keys) |->
                         get_storage_at_block(d, pool.address, tick_keys[i],
                                              block_number)]} })
    : tick_keys \in {[i \in 1..Len(tick_values.ticks) |->
                        v4_tick_slot(pool_id, tick_values.ticks[i])]} })
    : tick_values \in {ExtractTickValues(bitmaps, pool.tick_spacing[1])} })
    : bitmaps \in {ReadBitmaps(word_positions,
                       [i \in 1..Len(bitmap_keys) |->
                           get_storage_at_block(d, pool.address, bitmap_keys[i],
                                                block_number)])} })
    : slot0 \in {decode_slot0(get_storage_at_block(d, pool.address,
                                  v4_base_slot(pool_id), block_number))},
      liquidity_value \in {get_storage_at_block(d, pool.address,
                               v4_liquidity_slot(pool_id), block_number)},
      head_keys \in {<<v4_base_slot(pool_id), v4_liquidity_slot(pool_id)>>},
      word_positions \in {generate_word_positions(pool.tick_spacing[1])},
      bitmap_keys \in {The({[i \in 1..Len(wp) |-> v4_bitmap_slot(pool_id, wp[i])]
                             : wp \in {generate_word_positions(pool.tick_spacing[1])}})} })

----------------------------------------------------------------------------
(* lib.rs: the batch entry points *)

\* A pairing that falls back to the zero pool id when the list runs out.
TakePoolIdOrZero(v4_pool_ids, v4_pool_id_idx) ==
    IF v4_pool_ids = None THEN Ok(0)
    ELSE IF v4_pool_id_idx >= Len(v4_pool_ids[1]) THEN Ok(0)
    ELSE Ok(v4_pool_ids[1][v4_pool_id_idx + 1])

\* The pool id every V4 descriptor is read with when the index never advances.
TakeFirstPoolId(v4_pool_ids, v4_pool_id_idx) ==
    IF v4_pool_ids = None THEN Err("V4 pools require pool_ids parameter")
    ELSE IF v4_pool_id_idx >= Len(v4_pool_ids[1])
         THEN Err("Not enough pool IDs provided for V4 pools")
    ELSE Ok(v4_pool_ids[1][1])

\* The UniswapV4 arm up to the reader call: the pool id paired with the next
\* V4 descriptor (v4_pool_id_idx counts the V4 descriptors read so far).
TakePoolId(v4_pool_ids, v4_pool_id_idx) ==
    IF v4_pool_ids = None THEN Err("V4 pools require pool_ids parameter")
    ELSE IF v4_pool_id_idx >= Len(v4_pool_ids[1])
         THEN Err("Not enough pool IDs provided for V4 pools")
    ELSE Ok(v4_pool_ids[1][v4_pool_id_idx + 1])

\* The reads of the call for descriptor i, each with the position of the
\* descriptor it was issued for.
ForPool(i, issued) ==
    The({[n \in 1..Len(r) |-> [pool |-> i, address |-> r[n].address, key |-> r[n].key]]
         : r \in {issued}})

\* The loop of collect_pool_data from descriptor i on; the first descriptor
\* that fails ends the call with its error.
RECURSIVE CollectFrom(_, _, _, _, _, _, _, _)
CollectFrom(d, pools, v4_pool_ids, overflow_checks, i, v4_pool_id_idx, results, issued) ==
    IF i > Len(pools) THEN Issued(Ok(results), issued)
    ELSE
    The({
        IF output.status # "ok"
        THEN Issued(output, issued \o ForPool(i, output.reads))
        ELSE CollectFrom(d, pools, v4_pool_ids, overflow_checks, i + 1,
                 IF pools[i].protocol = "UniswapV4" THEN v4_pool_id_idx + 1
                 ELSE v4_pool_id_idx,
                 Append(results, output.value[1]),
                 issued \o ForPool(i, output.reads))
    : output \in {
          IF pools[i].protocol = "UniswapV2" THEN read_v2_pool(d, pools[i])
          ELSE IF pools[i].protocol = "UniswapV3"
               THEN read_v3_pool(d, pools[i], overflow_checks)
          ELSE The({IF pool_id.status # "ok" THEN Issued(pool_id, <<>>)
                    ELSE read_v4_pool(d, pools[i], pool_id.value[1], overflow_checks)
                    : pool_id \in {TakePoolId(v4_pool_ids, v4_pool_id_idx)}})} })

\* A batch that degrades: the error of a descriptor is dropped and the call
\* succeeds with an empty list.
collect_pool_data_lenient(d, pools, v4_pool_ids, overflow_checks) ==
    The({IF r.status = "err" THEN Issued(Ok(<<>>), r.reads) ELSE r
         : r \in {CollectFrom(d, pools, v4_pool_ids, overflow_checks, 1, 0, <<>>, <<>>)}})

collect_pool_data(d, pools, v4_pool_ids, overflow_checks) ==
    CollectFrom(d, pools, v4_pool_ids, overflow_checks, 1, 0, <<>>, <<>>)

RECURSIVE CollectAtBlockFrom(_, _, _, _, _, _, _, _, _)
CollectAtBlockFrom(d, pools, v4_pool_ids, block_number, overflow_checks, i, v4_pool_id_idx, results, issued) ==
    IF i > Len(pools) THEN Issued(Ok(results), issued)
    ELSE
    The({
        IF pool_data.status # "ok"
        THEN Issued(pool_data, issued \o ForPool(i, pool_data.reads))
        ELSE CollectAtBlockFrom(d, pools, v4_pool_ids, block_number, overflow_checks,
                 i + 1,
                 IF pools[i].protocol = "UniswapV4" THEN v4_pool_id_idx + 1
                 ELSE v4_pool_id_idx,
                 Append(results, [pool_data |-> pool_data.value[1],
                                  block_number |-> block_number]),
                 issued \o ForPool(i, pool_data.reads))
    : pool_data \in {
          IF pools[i].protocol = "UniswapV2"
               THEN read_v2_pool_at_block(d, pools[i], block_number)
          ELSE IF pools[i].protocol = "UniswapV3"
               THEN read_v3_pool_at_block(d, pools[i], block_number, overflow_checks)
          ELSE The({IF pool_id.status # "ok" THEN Issued(pool_id, <<>>)
                    ELSE read_v4_pool_at_block(d, pools[i], pool_id.value[1],
                                               block_number, overflow_checks)
                    : pool_id \in {TakePoolId(v4_pool_ids, v4_pool_id_idx)}})} })

collect_pool_data_at_block(d, pools, v4_pool_ids, block_number, overflow_checks) ==
    CollectAtBlockFrom(d, pools, v4_pool_ids, block_number, overflow_checks, 1, 0,
                       <<>>, <<>>)

----------------------------------------------------------------------------
(* The database the program opens read-only.  The tables are written by    *)
(* reth; the model builds them from the value each storage slot held after *)
(* every block, the way reth's execution and indexing stages record them.  *)

\* Pivot of the final shard of every key (reth: u64::MAX), above every height.
LastShardPivot == MaxBlock + 1000

\* vals[b + 1] is the value of the slot after block b, for b in 0..MaxBlock.
ChangeBlocks(vals) == {b \in 1..MaxBlock : vals[b + 1] # vals[b]}

\* The sorted change list cut into shards of ShardSize blocks; every shard but
\* the last is keyed by its highest block, the last by LastShardPivot.
ShardsOf(address, key, changes) ==
    LET sorted == SortedSeq(changes)
        n == Len(sorted)
        count == (n + ShardSize - 1) \div ShardSize
        chunk(i) == {sorted[j] : j \in {j \in 1..n :
                        (i - 1) * ShardSize < j /\ j <= i * ShardSize}}
    IN {[address |-> address, key |-> key,
         highest |-> IF i = count THEN LastShardPivot
                     ELSE sorted[i * ShardSize],
         blocks |-> chunk(i)] : i \in 1..count}

\* The tables one storage slot contributes.
SlotPlain(s) ==
    IF s.vals[MaxBlock + 1] # ZERO
    THEN {[address |-> s.address, key |-> s.key, value |-> s.vals[MaxBlock + 1]]}
    ELSE {}

SlotChangesets(s) ==
    {[block |-> b, address |-> s.address, key |-> s.key, value |-> s.vals[b]] :
        b \in ChangeBlocks(s.vals)}

SlotHistory(s) == ShardsOf(s.address, s.key, ChangeBlocks(s.vals))

EmptyDb ==
    [plain |-> {}, history |-> {}, changesets |-> {},
     headers |-> {}, bodies |-> {}, receipts |-> {}]

\* The database holding the given storage slots (and no blocks).
StorageDb(slots) ==
    [EmptyDb EXCEPT
        !.plain = UNION {SlotPlain(s) : s \in slots},
        !.history = UNION {SlotHistory(s) : s \in slots},
        !.changesets = UNION {SlotChangesets(s) : s \in slots}]

\* The accounts of the model.
Addresses == {1, 2}

\* A slot that held one value throughout; one first written at block 2; one
\* rewritten at block 3; one rewritten by every block.
ConstVals(w) == [i \in 1..(MaxBlock + 1) |-> w]
StepVals(w) == [i \in 1..(MaxBlock + 1) |-> IF i <= 2 THEN ZERO ELSE w]
ChangedVals(w1, w2) == [i \in 1..(MaxBlock + 1) |-> IF i <= 3 THEN w1 ELSE w2]
AlternatingVals(w1, w2) == [i \in 1..(MaxBlock + 1) |-> IF i % 2 = 1 THEN w1 ELSE w2]

Slot(address, key, vals) == [address |-> address, key |-> key, vals |-> vals]

\* Nothing, or one of the given slots.
Opt(slots) == {{}} \cup {{x} : x \in slots}

----------------------------------------------------------------------------
(* Specification SpecHist: one per-slot historical read                    *)

HistAddr == Min(Addresses)
HistKey == simple_slot(V3_LIQUIDITY)
HistWords == {ZERO, {0}, {1, 130}}
NeighbourWord == {7, 200}

\* What else the database may hold next to the slot that is read: nothing, a
\* slot that never changed, or a slot with one change.
NeighbourSlots(address, key) ==
    { {},
      {[address |-> address, key |-> key, vals |-> ConstVals(NeighbourWord)]},
      {[address |-> address, key |-> key, vals |-> StepVals(NeighbourWord)]} }

HistDbs ==
    {StorageDb({[address |-> HistAddr, key |-> HistKey, vals |-> v]} \cup nk \cup na) :
        v \in [1..(MaxBlock + 1) -> HistWords],
        nk \in NeighbourSlots(HistAddr, HistKey + 1),
        na \in NeighbourSlots(HistAddr + 1, HistKey)}

HistInit ==
    /\ db \in HistDbs
    /\ req \in [op : {"get_storage_at_block"}, address : {HistAddr},
                key : {HistKey}, block : 0..MaxBlock]
    /\ pc = "idle"
    /\ out = None
    /\ reads = <<>>

\* historical.rs get_storage_at_block, called with the arguments in req.
GetStorageAtBlock ==
    /\ pc = "idle"
    /\ req.op = "get_storage_at_block"
    /\ out' = Some(get_storage_at_block(db, req.address, req.key, req.block))
    /\ pc' = "done"
    /\ UNCHANGED <<db, req, reads>>

HistNext == GetStorageAtBlock

SpecHist == HistInit /\ [][HistNext]_vars

----------------------------------------------------------------------------
(* What the tables say, read without cursors *)

\* Every change block the history index lists for (address, key), all shards.
AllChanges(d, address, key) ==
    UNION {s.blocks : s \in {t \in d.history : t.address = address /\ t.key = key}}

LaterChanges(d, address, key, h) == {b \in AllChanges(d, address, key) : b > h}

\* The changeset entries recorded under exactly (block, address, key).
Recorded(d, block, address, key) ==
    {c \in d.changesets : c.block = block /\ c.address = address /\ c.key = key}

\* The plain-state value under exactly (address, key), or zero.
ExactPlain(d, address, key) ==
    LET hits == {p \in d.plain : p.address = address /\ p.key = key}
    IN IF hits = {} THEN ZERO ELSE (CHOOSE p \in hits : TRUE).value

HistDone == pc = "done" /\ req.op = "get_storage_at_block"

----------------------------------------------------------------------------
(* Claims about the per-slot historical read *)

\* C1: if the history index of (A, K) lists a change block strictly greater
\* than h, get_storage_at_block(A, K, h) returns the pre-change value recorded
\* in the changeset of the smallest such block, however the list is sharded.
C1_NextChangePreValue ==
    HistDone =>
        LET later == LaterChanges(db, req.address, req.key, req.block)
        IN later # {} =>
             \A c \in Recorded(db, Min(later), req.address, req.key) :
                 out = Some(c.value)

\* C2: the historical read is piecewise constant between consecutive change
\* blocks (end-of-block semantics): every height from the last change at or
\* before h up to the block before the next change reads the same value as h,
\* and the height just before a change block reads that change's pre-value.
C2_PiecewiseConstant ==
    HistDone =>
        LET all == AllChanges(db, req.address, req.key)
            before == {b \in all : b <= req.block}
            later == {b \in all : b > req.block}
            from == IF before = {} THEN 0
                    ELSE CHOOSE b \in before : \A x \in before : x <= b
            to == IF later = {} THEN MaxBlock ELSE Min(later) - 1
        IN /\ \A h \in from..to :
                 Some(get_storage_at_block(db, req.address, req.key, h)) = out
           /\ (req.block + 1) \in all =>
                 \A c \in Recorded(db, req.block + 1, req.address, req.key) :
                     out = Some(c.value)

\* C3: with no change block after h, or no history entry for (A, K) at all,
\* the read returns the plain-state value stored under exactly (A, K), or zero.
C3_FallsBackToPlain ==
    HistDone =>
        (LaterChanges(db, req.address, req.key, req.block) = {} =>
            out = Some(ExactPlain(db, req.address, req.key)))

\* C3 witness: (A, K) has no history and no plain entry, the history seek
\* lands on another key's shard, plain state holds a greater subkey under A,
\* and the read has returned zero.
C3_Witness ==
    /\ HistDone
    /\ AllChanges(db, req.address, req.key) = {}
    /\ HistorySeek(db.history, req.address, req.key, req.block) # None
    /\ \E p \in db.plain : p.address = req.address /\ p.key > req.key
    /\ ~ \E p \in db.plain : p.address = req.address /\ p.key = req.key
    /\ out = Some(ZERO)

----------------------------------------------------------------------------
(* Specification SpecPool: one batch read through both entry points        *)

TickSpacings == {1000, 8388607, 2147483647}
PoolIds == {1, 2}

PoolAddr == Min(Addresses)
PoolSpacing == Min(TickSpacings)
PoolId == Min(PoolIds)

\* Sample words.  Slot0Word: price bits, tick 4, observation index 1, and bit
\* 241 set with bit 240 clear.  LiquidityWide has a bit above bit 127.
Slot0Word == {0, 100, 162, 184, 241}
LiquidityWord == {3, 64}
LiquidityWide == {3, 130}
ReservesWordA == {4, 115, 230}
ReservesWordB == {6, 112}
TickWord == {0, 128}
TickWordNegative == {5} \cup (128..255)
TickWordMostNegative == {1, 255}
FarWord == {9, 77}

PoolFixedSlots ==
    { Slot(PoolAddr, tick_slot(0, V3_TICKS), ConstVals(TickWord)),
      Slot(PoolAddr, tick_slot(-884 * PoolSpacing, V3_TICKS),
           ConstVals(TickWordMostNegative)),
      Slot(PoolAddr, tick_slot(-2, V3_TICKS), ConstVals(TickWord)),
      Slot(PoolAddr, bitmap_slot(-4, V3_TICK_BITMAP), ConstVals({100, 140})),
      Slot(PoolAddr, v4_slot0_slot(PoolId), ConstVals(Slot0Word)),
      Slot(PoolAddr, v4_liquidity_slot(PoolId), StepVals(LiquidityWord)),
      Slot(PoolAddr, v4_bitmap_slot(PoolId, 0), ConstVals({1})),
      Slot(PoolAddr, v4_tick_slot(PoolId, PoolSpacing), ConstVals(TickWordNegative)) }

\* The reserves and slot0 words, present together or absent together.
PoolHeadSlots ==
    { Slot(PoolAddr, simple_slot(V2_RESERVE),
           AlternatingVals(ReservesWordA, ReservesWordB)),
      Slot(PoolAddr, simple_slot(V3_SLOT0), ConstVals(Slot0Word)) }

PoolDbs ==
    {StorageDb(PoolFixedSlots \cup head \cup liq \cup bm0 \cup t3 \cup far) :
        head \in {{}, PoolHeadSlots},
        liq \in Opt({Slot(PoolAddr, simple_slot(V3_LIQUIDITY), ConstVals(LiquidityWord)),
                     Slot(PoolAddr, simple_slot(V3_LIQUIDITY), ConstVals(LiquidityWide))}),
        bm0 \in Opt({Slot(PoolAddr, bitmap_slot(0, V3_TICK_BITMAP), ConstVals({0, 2, 3})),
                     Slot(PoolAddr, bitmap_slot(0, V3_TICK_BITMAP), StepVals({0, 3}))}),
        t3 \in Opt({Slot(PoolAddr, tick_slot(3 * PoolSpacing, V3_TICKS),
                         ConstVals(TickWordNegative)),
                    Slot(PoolAddr, tick_slot(3 * PoolSpacing, V3_TICKS),
                         ChangedVals(TickWord, ZERO))}),
        far \in Opt({Slot(PoolAddr, tick_slot(MAX_TICK, V3_TICK_BITMAP + 1),
                          ConstVals(FarWord))})}

\* The heights asked for: before the first write, the last block of a full
\* history shard, and the tip.
PoolHeights == {1, ShardSize, MaxBlock}

Descriptor(address, protocol, tick_spacing) ==
    [address |-> address, protocol |-> protocol, tick_spacing |-> tick_spacing,
     slot0_only |-> FALSE]

PoolBatches ==
    { [pools |-> <<Descriptor(PoolAddr, "UniswapV2", None)>>, v4_pool_ids |-> None],
      [pools |-> <<Descriptor(PoolAddr, "UniswapV3", None)>>, v4_pool_ids |-> None],
      [pools |-> <<Descriptor(PoolAddr, "UniswapV4", Some(PoolSpacing))>>,
       v4_pool_ids |-> Some(<<PoolId>>)] }
    \cup
    { [pools |-> <<Descriptor(PoolAddr, "UniswapV3", Some(s))>>, v4_pool_ids |-> None] :
        s \in TickSpacings }

PoolInit ==
    /\ db \in PoolDbs
    /\ \E b \in PoolBatches, h \in PoolHeights :
          req = [op |-> "collect", pools |-> b.pools, v4_pool_ids |-> b.v4_pool_ids,
                 block_number |-> h]
    /\ pc = "idle"
    /\ out = [current |-> None, historical |-> None]
    /\ reads = <<>>

\* lib.rs collect_pool_data on the batch in req.  A build either checks
\* arithmetic overflow (and panics) or wraps.
CollectPoolData ==
    /\ req.op = "collect"
    /\ out.current = None
    /\ \E overflow_checks \in BOOLEAN :
          out' = [out EXCEPT !.current =
                     Some(collect_pool_data(db, req.pools, req.v4_pool_ids,
                                            overflow_checks))]
    /\ UNCHANGED <<db, req, pc, reads>>

\* lib.rs collect_pool_data_at_block on the batch and height in req.
CollectPoolDataAtBlock ==
    /\ req.op = "collect"
    /\ out.historical = None
    /\ \E overflow_checks \in BOOLEAN :
          out' = [out EXCEPT !.historical =
                     Some(collect_pool_data_at_block(db, req.pools, req.v4_pool_ids,
                                                     req.block_number, overflow_checks))]
    /\ UNCHANGED <<db, req, pc, reads>>

PoolNext == CollectPoolData \/ CollectPoolDataAtBlock

SpecPool == PoolInit /\ [][PoolNext]_vars

----------------------------------------------------------------------------
(* Claims about the pool snapshots *)

\* The value (address, key) held at the end of block h, read off the tables:
\* the pre-change value of the first later change, else the plain value.
ValueAt(d, address, key, h) ==
    LET later == LaterChanges(d, address, key, h)
    IN IF later # {}
       THEN (CHOOSE c \in Recorded(d, Min(later), address, key) : TRUE).value
       ELSE ExactPlain(d, address, key)

\* No storage key of the account changes after block h.
QuietAfter(d, address, h) ==
    \A s \in d.history : s.address = address => \A b \in s.blocks : b <= h

CurrentDone ==
    req.op = "collect" /\ out.current # None /\ out.current[1].status = "ok"
HistoricalDone ==
    req.op = "collect" /\ out.historical # None /\ out.historical[1].status = "ok"

CurrentSnapshot(i) == out.current[1].value[1][i]
HistoricalSnapshot(i) == out.historical[1].value[1][i].pool_data

IsTickPool(pool) == pool.protocol \in {"UniswapV3", "UniswapV4"}

\* The slots a descriptor's reads are keyed by.
ReservesSlotOf(pool) == simple_slot(V2_RESERVE)
Slot0SlotOf(pool, S) ==
    IF pool.protocol = "UniswapV4" THEN v4_slot0_slot(S.pool_id[1])
    ELSE simple_slot(V3_SLOT0)
BitmapSlotOf(pool, S, word_pos) ==
    IF pool.protocol = "UniswapV4" THEN v4_bitmap_slot(S.pool_id[1], word_pos)
    ELSE bitmap_slot(word_pos, V3_TICK_BITMAP)
TickSlotOf(pool, S, tick) ==
    IF pool.protocol = "UniswapV4" THEN v4_tick_slot(S.pool_id[1], tick)
    ELSE tick_slot(tick, V3_TICKS)

Count(seq, x) == Cardinality({i \in 1..Len(seq) : seq[i] = x})
SameMultiset(a, b) ==
    /\ Len(a) = Len(b)
    /\ \A i \in 1..Len(a) : Count(a, a[i]) = Count(b, a[i])

TickIndices(S) == [i \in 1..Len(S.ticks) |-> S.ticks[i].tick]

\* C4: when no storage key of the pool changes after block h, the pool_data
\* of collect_pool_data_at_block at height h equals, field by field, the
\* snapshot collect_pool_data produces for the same descriptor.
C4_HistoricalEqualsCurrent ==
    (CurrentDone /\ HistoricalDone) =>
        \A i \in 1..Len(req.pools) :
            QuietAfter(db, req.pools[i].address, req.block_number) =>
                HistoricalSnapshot(i) = CurrentSnapshot(i)

\* C5: the current-state reader uses a value only if the entry the seek
\* returned sits under exactly the requested key: reserves and header carry
\* the word stored under their own slot (zero if there is none), and every
\* bitmap word and tick record carries the word stored under its own slot.
C5_SeekAndVerify ==
    CurrentDone =>
        \A i \in 1..Len(req.pools) :
            LET pool == req.pools[i]
                S == CurrentSnapshot(i)
            IN /\ pool.protocol = "UniswapV2" =>
                    S.reserves[1].raw_data =
                        Some(ExactPlain(db, pool.address, ReservesSlotOf(pool)))
               /\ IsTickPool(pool) =>
                    /\ S.slot0[1].raw_data =
                           Some(ExactPlain(db, pool.address, Slot0SlotOf(pool, S)))
                    /\ \A j \in 1..Len(S.bitmaps) :
                           S.bitmaps[j].bitmap =
                               ExactPlain(db, pool.address,
                                   BitmapSlotOf(pool, S, S.bitmaps[j].word_pos))
                    /\ \A j \in 1..Len(S.ticks) :
                           S.ticks[j].raw_data =
                               Some(ExactPlain(db, pool.address,
                                        TickSlotOf(pool, S, S.ticks[j].tick)))

\* The ticks extract_ticks emits over the bitmap words of S, restricted to
\* those whose primary slot word at height h (None: now) is nonzero.
ExpectedTicks(pool, S, h) ==
    SelectSeq(ExtractTickValues(S.bitmaps, pool.tick_spacing[1]).ticks,
              LAMBDA t :
                  (IF h = None
                   THEN ExactPlain(db, pool.address, TickSlotOf(pool, S, t))
                   ELSE ValueAt(db, pool.address, TickSlotOf(pool, S, t), h[1]))
                  # ZERO)

C6_Current ==
    CurrentDone =>
        \A i \in 1..Len(req.pools) :
            LET pool == req.pools[i]
                S == CurrentSnapshot(i)
            IN IsTickPool(pool) =>
                 SameMultiset(TickIndices(S), ExpectedTicks(pool, S, None))

C6_Historical ==
    HistoricalDone =>
        \A i \in 1..Len(req.pools) :
            LET pool == req.pools[i]
                S == HistoricalSnapshot(i)
            IN IsTickPool(pool) =>
                 SameMultiset(TickIndices(S),
                              ExpectedTicks(pool, S, Some(req.block_number)))

\* C6: in every V3/V4 snapshot of the current or the historical reader, the
\* multiset of tick indices equals the multiset of ticks extract_ticks emits
\* over the snapshot's bitmap words, restricted to the ticks whose primary
\* slot word is nonzero.
C6_TicksMatchBitmaps == C6_Current /\ C6_Historical

TickAligned(pool, S) ==
    \A j \in 1..Len(S.ticks) :
        /\ S.ticks[j].tick % pool.tick_spacing[1] = 0
        /\ MIN_TICK <= S.ticks[j].tick
        /\ S.ticks[j].tick <= MAX_TICK

\* C7: in every V3/V4 snapshot read with tick spacing s >= 1, every tick
\* record t has t.tick mod s = 0 and MIN_TICK <= t.tick <= MAX_TICK.
C7_TicksAlignedInRange ==
    /\ CurrentDone =>
         \A i \in 1..Len(req.pools) :
            (IsTickPool(req.pools[i]) /\ req.pools[i].tick_spacing[1] >= 1) =>
                TickAligned(req.pools[i], CurrentSnapshot(i))
    /\ HistoricalDone =>
         \A i \in 1..Len(req.pools) :
            (IsTickPool(req.pools[i]) /\ req.pools[i].tick_spacing[1] >= 1) =>
                TickAligned(req.pools[i], HistoricalSnapshot(i))

----------------------------------------------------------------------------
(* events.rs: the bloom-guarded log sweeps *)

\* BloomInput::Raw over the 20 bytes of an address and the 32 bytes of a
\* topic; a bloom is the set of inputs it answers "maybe present" for.
AddressBytes(address) == <<"address", address>>
TopicBytes(topic) == <<"topic", topic>>
contains_input(bloom, input) == input \in bloom

\* cursor.seek_exact on a table keyed by a number.
SeekExact(table, key) ==
    LET hits == {e \in table : e.key = key}
    IN IF hits = {} THEN None ELSE Some(CHOOSE e \in hits : TRUE)

\* The bloom test for the topic filter: every listed topic may be present.
has_all_topics(logs_bloom, topics) ==
    topics = None \/
    \A k \in 1..Len(topics[1]) : contains_input(logs_bloom, TopicBytes(topics[1][k]))

\* Positional topic match of one log; a log with fewer topics misses.
matches_topics(topics, log) ==
    topics = None \/
    \A k \in 1..Len(topics[1]) :
        k <= Len(log.topics) /\ log.topics[k] = topics[1][k]

EventLog(log, block_num, tx_index) ==
    [log |-> log, block_number |-> block_num, transaction_index |-> tx_index,
     transaction_hash |-> None]

EventScanResult(address, from_block, to_block) ==
    [address |-> address, from_block |-> from_block, to_block |-> to_block,
     logs |-> <<>>, blocks_scanned |-> 0, blocks_skipped_by_bloom |-> 0]

\* The matching logs of a receipt, indexed by the global transaction number.
ReceiptMatchesGlobalIndex(d, address, topics, block_num, first_tx_num, tx_index) ==
    LET receipt == SeekExact(d.receipts, first_tx_num + tx_index)
    IN IF receipt = None THEN <<>>
       ELSE LET kept == SelectSeq(receipt[1].logs,
                            LAMBDA log : log.address = address
                                         /\ matches_topics(topics, log))
            IN [k \in 1..Len(kept) |->
                   EventLog(kept[k], block_num, first_tx_num + tx_index)]

\* scan_events steps 3-4 for one transaction: the matching logs of its receipt.
ReceiptMatches(d, address, topics, block_num, first_tx_num, tx_index) ==
    LET receipt == SeekExact(d.receipts, first_tx_num + tx_index)
    IN IF receipt = None THEN <<>>
       ELSE LET kept == SelectSeq(receipt[1].logs,
                            LAMBDA log : log.address = address
                                         /\ matches_topics(topics, log))
            IN [k \in 1..Len(kept) |-> EventLog(kept[k], block_num, tx_index)]

\* scan_events steps 2-4 for one block that passed the bloom test.
BlockMatches(d, address, topics, block_num) ==
    LET body == SeekExact(d.bodies, block_num)
    IN IF body = None THEN <<>>
       ELSE Flatten([t \in 1..body[1].tx_count |->
                ReceiptMatches(d, address, topics, block_num,
                               body[1].first_tx_num, t - 1)])

\* The block loop of scan_events from block_num on.
RECURSIVE ScanFrom(_, _, _, _, _, _)
ScanFrom(d, address, topics, block_num, to_block, result) ==
    IF block_num > to_block THEN result
    ELSE
    LET scanned == [result EXCEPT !.blocks_scanned = @ + 1]
        header == SeekExact(d.headers, block_num)
        next ==
          IF header = None THEN scanned
          ELSE IF ~contains_input(header[1].logs_bloom, AddressBytes(address))
               THEN [scanned EXCEPT !.blocks_skipped_by_bloom = @ + 1]
          ELSE IF ~has_all_topics(header[1].logs_bloom, topics)
               THEN [scanned EXCEPT !.blocks_skipped_by_bloom = @ + 1]
          ELSE [scanned EXCEPT !.logs = @ \o BlockMatches(d, address, topics, block_num)]
    IN ScanFrom(d, address, topics, block_num + 1, to_block, next)

scan_events(d, address, from_block, to_block, topics) ==
    Ok(ScanFrom(d, address, topics, from_block, to_block,
                EventScanResult(address, from_block, to_block)))

\* scan_events_multi_address step 1: the bloom may hold one of the addresses.
FirstAddressOnly(logs_bloom, addresses) ==
    contains_input(logs_bloom, AddressBytes(addresses[1]))

AlwaysScan(logs_bloom, addresses) == TRUE

has_any_address(logs_bloom, addresses) ==
    \E i \in 1..Len(addresses) : contains_input(logs_bloom, AddressBytes(addresses[i]))

\* Every position of the address list a log matches.
AttributeLogNoBreak(addresses, log, topics) ==
    SelectSeq([i \in 1..Len(addresses) |-> i],
              LAMBDA i : addresses[i] = log.address /\ matches_topics(topics, log))

\* scan_events_multi_address step 4, the loop over the addresses for one log:
\* the accumulators the log is pushed to (the loop breaks at the first match).
AttributeLog(addresses, log, topics) ==
    LET matching == SelectSeq([i \in 1..Len(addresses) |-> i],
                        LAMBDA i : addresses[i] = log.address
                                   /\ matches_topics(topics, log))
    IN IF matching = <<>> THEN <<>> ELSE <<Head(matching)>>

\* scan_events_multi_address step 4 for the logs of one receipt.
RECURSIVE PushLogs(_, _, _, _, _, _)
PushLogs(results, addresses, topics, logs, block_num, tx_index) ==
    IF logs = <<>> THEN results
    ELSE
    LET targets == AttributeLog(addresses, Head(logs), topics)
        event == EventLog(Head(logs), block_num, tx_index)
        pushed == [i \in 1..Len(results) |->
                      IF \E k \in 1..Len(targets) : targets[k] = i
                      THEN [results[i] EXCEPT !.logs = Append(@, event)]
                      ELSE results[i]]
    IN PushLogs(pushed, addresses, topics, Tail(logs), block_num, tx_index)

\* results.iter_mut() bumping the per-address counters.
MarkScanned(results) ==
    [i \in 1..Len(results) |-> [results[i] EXCEPT !.blocks_scanned = @ + 1]]
MarkSkipped(results) ==
    [i \in 1..Len(results) |->
        [results[i] EXCEPT !.blocks_scanned = @ + 1,
                           !.blocks_skipped_by_bloom = @ + 1]]

----------------------------------------------------------------------------
(* Specification SpecScan: one multi-address sweep, then the single-address *)
(* sweep of every listed address over the same range                        *)

Max(S) == CHOOSE x \in S : \A y \in S : y <= x

\* The subjects asked for, and one emitter nobody asks for.
Subject1 == Min(Addresses)
Subject2 == Max(Addresses)
Stranger == Max(Addresses) + 1

Topic1 == "Swap"
Topic2 == "Mint"

Log(address, topics) == [address |-> address, topics |-> topics]

\* The bloom reth computes for a block: the address and the topics of every
\* log of every receipt.
BloomOf(txs) ==
    UNION {UNION {{AddressBytes(txs[t][1][l].address)}
                  \cup {TopicBytes(txs[t][1][l].topics[k]) :
                           k \in 1..Len(txs[t][1][l].topics)} :
                  l \in 1..Len(txs[t][1])} :
           t \in {u \in 1..Len(txs) : txs[u] # None}}

\* A block: its header's bloom (None: no header row), whether it has a body
\* indices row, and the logs of the receipt of each transaction (None: no
\* receipt row).
Block(logs_bloom, body, txs) == [logs_bloom |-> logs_bloom, body |-> body, txs |-> txs]

OneLogTxs == <<Some(<<Log(Subject1, <<Topic1>>)>>)>>
TwoTxs ==
    <<Some(<<Log(Subject2, <<Topic1, Topic2>>)>>),
      Some(<<Log(Subject1, <<Topic2>>), Log(Subject2, <<Topic1>>),
             Log(Subject1, <<Topic1, Topic2>>), Log(Subject1, <<>>)>>)>>
StrangerTxs == <<Some(<<Log(Stranger, <<Topic1>>)>>)>>
PrunedTxs == <<None, Some(<<Log(Subject2, <<Topic1>>)>>)>>
MixedTxs == <<Some(<<Log(Subject1, <<Topic1>>), Log(Subject2, <<Topic1>>)>>)>>

BlockOne == Block(Some(BloomOf(OneLogTxs)), TRUE, OneLogTxs)
BlockNoHeader == Block(None, TRUE, OneLogTxs)
\* A bloom that misses the second subject although the block has a log of it.
BlockUnsound ==
    Block(Some({AddressBytes(Subject1), TopicBytes(Topic1)}), TRUE, MixedTxs)
BlockTwo == Block(Some(BloomOf(TwoTxs)), TRUE, TwoTxs)
BlockStranger == Block(Some(BloomOf(StrangerTxs)), TRUE, StrangerTxs)
BlockPruned == Block(Some(BloomOf(PrunedTxs)), TRUE, PrunedTxs)
\* A false positive: the bloom answers for the first subject, no log is its.
BlockFalsePositive ==
    Block(Some(BloomOf(StrangerTxs) \cup {AddressBytes(Subject1)}), TRUE, StrangerTxs)
BlockNoBody == Block(Some(BloomOf(OneLogTxs)), FALSE, OneLogTxs)
BlockQuiet == Block(Some({}), TRUE, <<>>)

BlockMenu(b) ==
    IF b = 1 THEN {BlockOne, BlockNoHeader, BlockUnsound}
    ELSE IF b = 2 THEN {BlockTwo, BlockStranger, BlockPruned}
    ELSE IF b = 3 THEN {BlockFalsePositive, BlockNoBody}
    ELSE {BlockTwo, BlockQuiet}

\* Global number of the first transaction of block b.
RECURSIVE FirstTxNum(_, _)
FirstTxNum(chain, b) ==
    IF b <= 1 THEN 0 ELSE FirstTxNum(chain, b - 1) + Len(chain[b - 1].txs)

\* The database holding the given blocks 1..MaxBlock (and no storage); every
\* log carries its position in the chain as data.
ChainDb(chain) ==
    [EmptyDb EXCEPT
        !.headers = {[key |-> b, logs_bloom |-> chain[b].logs_bloom[1]] :
                        b \in {c \in DOMAIN chain : chain[c].logs_bloom # None}},
        !.bodies = {[key |-> b, first_tx_num |-> FirstTxNum(chain, b),
                     tx_count |-> Len(chain[b].txs)] :
                        b \in {c \in DOMAIN chain : chain[c].body}},
        !.receipts =
            UNION {{[key |-> FirstTxNum(chain, b) + t - 1,
                     logs |-> [l \in 1..Len(chain[b].txs[t][1]) |->
                                  [address |-> chain[b].txs[t][1][l].address,
                                   topics |-> chain[b].txs[t][1][l].topics,
                                   data |-> <<b, t - 1, l>>]]] :
                        t \in {u \in 1..Len(chain[b].txs) : chain[b].txs[u] # None}} :
                   b \in DOMAIN chain}]

ScanDbs ==
    {ChainDb(chain) :
        chain \in {c \in [1..MaxBlock -> UNION {BlockMenu(b) : b \in 1..MaxBlock}] :
                      \A b \in 1..MaxBlock : c[b] \in BlockMenu(b)}}

ScanAddressLists ==
    {<<>>, <<Subject1>>, <<Subject1, Subject2>>, <<Subject2, Subject1>>,
     <<Subject1, Subject1>>}
ScanTopics == {None, Some(<<Topic1>>), Some(<<Topic1, Topic2>>)}
ScanRanges == {<<0, MaxBlock>>, <<1, 3>>, <<2, 2>>, <<3, 2>>}

ScanInit ==
    /\ db \in ScanDbs
    /\ \E a \in ScanAddressLists, t \in ScanTopics, r \in ScanRanges :
          req = [op |-> "scan", addresses |-> a, topics |-> t,
                 from_block |-> r[1], to_block |-> r[2]]
    /\ pc = [at |-> "start"]
    /\ out = [multi |-> None, single |-> <<>>]
    /\ reads = <<>>

\* The locals of the running scan_events_multi_address call.
MultiAt(at, block_num, tx_index, body_indices, results) ==
    [at |-> at, block_num |-> block_num, tx_index |-> tx_index,
     body_indices |-> body_indices, results |-> results]

\* The top of the block loop for the next block.
NextBlock(results) == MultiAt("header", pc.block_num + 1, 0, None, results)

\* scan_events_multi_address up to the block loop: the empty address list
\* returns at once; otherwise one accumulator per address, in input order.
MultiStart ==
    /\ req.op = "scan"
    /\ pc.at = "start"
    /\ IF req.addresses = <<>>
       THEN /\ out' = [out EXCEPT !.multi = Some(Ok(<<>>))]
            /\ pc' = [at |-> "single"]
       ELSE /\ pc' = MultiAt("header", req.from_block, 0, None,
                        [i \in 1..Len(req.addresses) |->
                            EventScanResult(req.addresses[i], req.from_block,
                                            req.to_block)])
            /\ out' = out
    /\ UNCHANGED <<db, req, reads>>

\* Step 1 for one block: seek the header and test its bloom.
MultiHeader ==
    /\ req.op = "scan"
    /\ pc.at = "header"
    /\ pc.block_num <= req.to_block
    /\ reads' = Append(reads, [table |-> "Headers", key |-> pc.block_num])
    /\ LET header == SeekExact(db.headers, pc.block_num)
       IN pc' = IF header = None THEN NextBlock(pc.results)
                ELSE IF ~has_any_address(header[1].logs_bloom, req.addresses)
                     THEN NextBlock(MarkSkipped(pc.results))
                ELSE IF ~has_all_topics(header[1].logs_bloom, req.topics)
                     THEN NextBlock(MarkSkipped(pc.results))
                ELSE [pc EXCEPT !.at = "body", !.results = MarkScanned(pc.results)]
    /\ UNCHANGED <<db, req, out>>

\* Step 2 for a block that passed the bloom test: seek its body indices.
MultiBody ==
    /\ req.op = "scan"
    /\ pc.at = "body"
    /\ reads' = Append(reads, [table |-> "BlockBodyIndices", key |-> pc.block_num])
    /\ LET body == SeekExact(db.bodies, pc.block_num)
       IN pc' = IF body = None \/ body[1].tx_count = 0 THEN NextBlock(pc.results)
                ELSE [pc EXCEPT !.at = "receipt", !.tx_index = 0, !.body_indices = body]
    /\ UNCHANGED <<db, req, out>>

\* Steps 3-4 for one transaction: read its receipt, attribute its logs.
MultiReceipt ==
    /\ req.op = "scan"
    /\ pc.at = "receipt"
    /\ LET tx_num == pc.body_indices[1].first_tx_num + pc.tx_index
           receipt == SeekExact(db.receipts, tx_num)
           results == IF receipt = None THEN pc.results
                      ELSE PushLogs(pc.results, req.addresses, req.topics,
                                    receipt[1].logs, pc.block_num, pc.tx_index)
       IN /\ reads' = Append(reads, [table |-> "Receipts", key |-> tx_num])
          /\ pc' = IF pc.tx_index + 1 < pc.body_indices[1].tx_count
                   THEN [pc EXCEPT !.tx_index = @ + 1, !.results = results]
                   ELSE NextBlock(results)
    /\ UNCHANGED <<db, req, out>>

\* The block loop is over: Ok(results).
MultiReturn ==
    /\ req.op = "scan"
    /\ pc.at = "header"
    /\ pc.block_num > req.to_block
    /\ out' = [out EXCEPT !.multi = Some(Ok(pc.results))]
    /\ pc' = [at |-> "single"]
    /\ UNCHANGED <<db, req, reads>>

\* scan_events for the next listed address, over the same range and topics.
ScanEvents ==
    /\ req.op = "scan"
    /\ pc.at = "single"
    /\ Len(out.single) < Len(req.addresses)
    /\ out' = [out EXCEPT !.single =
                  Append(@, scan_events(db, req.addresses[Len(out.single) + 1],
                                        req.from_block, req.to_block, req.topics))]
    /\ UNCHANGED <<db, req, pc, reads>>

ScanNext ==
    \/ MultiStart
    \/ MultiHeader
    \/ MultiBody
    \/ MultiReceipt
    \/ MultiReturn
    \/ ScanEvents

SpecScan == ScanInit /\ [][ScanNext]_vars

----------------------------------------------------------------------------
(* Claims about the event sweeps *)

MultiDone == req.op = "scan" /\ out.multi # None
ScanAllDone == MultiDone /\ Len(out.single) = Len(req.addresses)

MultiResults == out.multi[1].value[1]

\* The blocks of the requested range.
RangeBlocks == {b \in 0..MaxBlock : req.from_block <= b /\ b <= req.to_block}

\* Every header's bloom holds the address and the topics of every log of the
\* block's receipts.
SoundBlooms(d) ==
    \A h \in d.headers : \A body \in d.bodies : \A r \in d.receipts :
        (body.key = h.key /\ body.first_tx_num <= r.key
            /\ r.key < body.first_tx_num + body.tx_count) =>
        \A l \in 1..Len(r.logs) :
            /\ AddressBytes(r.logs[l].address) \in h.logs_bloom
            /\ \A k \in 1..Len(r.logs[l].topics) :
                   TopicBytes(r.logs[l].topics[k]) \in h.logs_bloom

Distinct(seq) == \A i, j \in 1..Len(seq) : seq[i] = seq[j] => i = j

\* C8: for a list of distinct addresses and a store with sound blooms, the
\* logs (with block number and transaction index) the multi-address sweep
\* attributes to each address are, as a multiset, the logs scan_events
\* returns for that address over the same range and topic filter.
C8_MultiEqualsSingle ==
    (ScanAllDone /\ Distinct(req.addresses) /\ SoundBlooms(db)) =>
        \A i \in 1..Len(req.addresses) :
            SameMultiset(MultiResults[i].logs, out.single[i].value[1].logs)

C8_Witness ==
    /\ ScanAllDone /\ Distinct(req.addresses) /\ SoundBlooms(db)
    /\ Len(req.addresses) = 2
    /\ req.topics # None
    /\ \A i \in 1..2 : MultiResults[i].logs # <<>>
    /\ \E h \in db.headers :
          /\ h.key \in RangeBlocks
          /\ AddressBytes(req.addresses[1]) \notin h.logs_bloom
          /\ AddressBytes(req.addresses[2]) \in h.logs_bloom
          /\ has_all_topics(h.logs_bloom, req.topics)

\* The log satisfies the request's filter for the address at position j.
Satisfies(j, log) ==
    /\ req.addresses[j] = log.address
    /\ req.topics # None =>
         \A k \in 1..Len(req.topics[1]) :
             k <= Len(log.topics) /\ log.topics[k] = req.topics[1][k]

\* How many times the accumulators hold the event, all of them together.
RECURSIVE Pushes(_, _, _)
Pushes(results, i, event) ==
    IF i > Len(results) THEN 0
    ELSE Count(results[i].logs, event) + Pushes(results, i + 1, event)

\* C9: in scan_events_multi_address every log read from a receipt is pushed
\* to at most one accumulator, that of the first address in input order that
\* equals the log's address with the topic filter satisfied; the result has
\* exactly one EventScanResult per input address, in input order.
C9_FirstMatchOnly ==
    MultiDone =>
        /\ Len(MultiResults) = Len(req.addresses)
        /\ \A i \in 1..Len(req.addresses) :
              /\ MultiResults[i].address = req.addresses[i]
              /\ \A n \in 1..Len(MultiResults[i].logs) :
                    LET event == MultiResults[i].logs[n]
                    IN /\ Pushes(MultiResults, 1, event) = 1
                       /\ Satisfies(i, event.log)
                       /\ \A j \in 1..(i - 1) : ~Satisfies(j, event.log)

C9_Witness ==
    /\ MultiDone
    /\ Len(req.addresses) = 2
    /\ req.addresses[1] = req.addresses[2]
    /\ MultiResults[1].logs # <<>>
    /\ MultiResults[2].logs = <<>>

ReadCount(table, key) ==
    Cardinality({n \in 1..Len(reads) : reads[n] = [table |-> table, key |-> key]})

\* The transactions of a block, by its body indices row.
TxNumsOf(d, b) ==
    UNION {body.first_tx_num .. (body.first_tx_num + body.tx_count - 1) :
              body \in {c \in d.bodies : c.key = b}}

\* C10: during one scan_events_multi_address call the header and the body
\* indices of each block are sought at most once and each receipt is read at
\* most once, whatever the number of addresses; a block whose bloom holds
\* none of the addresses has no receipt read.
C10_OneReadPerBlock ==
    req.op = "scan" =>
        /\ \A n \in 1..Len(reads) : ReadCount(reads[n].table, reads[n].key) = 1
        /\ \A h \in db.headers :
              (\A i \in 1..Len(req.addresses) :
                    AddressBytes(req.addresses[i]) \notin h.logs_bloom) =>
                  \A t \in TxNumsOf(db, h.key) : ReadCount("Receipts", t) = 0

C10_Witness ==
    /\ MultiDone
    /\ Len(req.addresses) = 2
    /\ \E n \in 1..Len(reads) : reads[n].table = "Receipts"
    /\ \E h \in db.headers :
          /\ h.key \in RangeBlocks
          /\ TxNumsOf(db, h.key) # {}
          /\ \A i \in 1..Len(req.addresses) :
                AddressBytes(req.addresses[i]) \notin h.logs_bloom

----------------------------------------------------------------------------
(* Claims about the single-address sweep and the sweep counters *)

\* The events the tables hold for the address at position j of the request:
\* one per log of a receipt first_tx_num + tx_index of a block of the range
\* whose header exists and whose bloom holds the address and every supplied
\* topic, the log being of that address and satisfying the topic filter.
ExpectedEvents(d, j) ==
    UNION {UNION {UNION {
        {EventLog(r.logs[l], h.key, r.key - body.first_tx_num) :
            l \in {m \in 1..Len(r.logs) : Satisfies(j, r.logs[m])}} :
        r \in {x \in d.receipts : body.first_tx_num <= x.key
                                  /\ x.key < body.first_tx_num + body.tx_count}} :
        body \in {x \in d.bodies : x.key = h.key}} :
        h \in {x \in d.headers :
                 /\ x.key \in RangeBlocks
                 /\ AddressBytes(req.addresses[j]) \in x.logs_bloom
                 /\ req.topics # None =>
                      \A k \in 1..Len(req.topics[1]) :
                          TopicBytes(req.topics[1][k]) \in x.logs_bloom}}

SingleLogs(j) == out.single[j].value[1].logs

\* C11: scan_events(subject, lo, hi, topics) returns exactly the logs of the
\* receipts of the blocks of [lo, hi] whose header exists and whose bloom
\* holds the subject and every supplied topic, that are of the subject and
\* match the supplied topics position by position (a log with fewer topics
\* misses); each is emitted exactly once, with its block number and its
\* index inside the block as transaction_index.
C11_ScanEventsExact ==
    req.op = "scan" =>
        \A j \in 1..Len(out.single) :
            /\ out.single[j].status = "ok"
            /\ {SingleLogs(j)[n] : n \in 1..Len(SingleLogs(j))} = ExpectedEvents(db, j)
            /\ \A n \in 1..Len(SingleLogs(j)) :
                  /\ Count(SingleLogs(j), SingleLogs(j)[n]) = 1
                  /\ SingleLogs(j)[n].block_number = SingleLogs(j)[n].log.data[1]
                  /\ SingleLogs(j)[n].transaction_index = SingleLogs(j)[n].log.data[2]

\* C11 witness: a finished single sweep with a topic filter that emitted a log
\* of a transaction whose number in the chain differs from its index in the
\* block, while a bloom-passing block of the range holds a log of the subject
\* with fewer topics than supplied.
C11_Witness ==
    /\ req.op = "scan" /\ req.topics # None
    /\ \E j \in 1..Len(out.single) :
          /\ \E n \in 1..Len(SingleLogs(j)) :
                \E body \in db.bodies :
                    /\ body.key = SingleLogs(j)[n].block_number
                    /\ body.first_tx_num + SingleLogs(j)[n].transaction_index
                          # SingleLogs(j)[n].transaction_index
          /\ \E r \in db.receipts : \E l \in 1..Len(r.logs) :
                /\ r.logs[l].address = req.addresses[j]
                /\ Len(r.logs[l].topics) < Len(req.topics[1])
                /\ r.logs[l].data[1] \in RangeBlocks
                /\ \E h \in db.headers :
                      /\ h.key = r.logs[l].data[1]
                      /\ AddressBytes(req.addresses[j]) \in h.logs_bloom
                      /\ has_all_topics(h.logs_bloom, req.topics)

\* C12: for a multi-address sweep over [lo, hi] with lo <= hi, blocks_scanned
\* of every address's result is hi - lo + 1, whatever the headers table
\* holds, and so equals the blocks_scanned scan_events reports for the range.
C12_BlocksScannedIsRangeSize ==
    (MultiDone /\ req.from_block <= req.to_block) =>
        \A i \in 1..Len(req.addresses) :
            /\ MultiResults[i].blocks_scanned = req.to_block - req.from_block + 1
            /\ i <= Len(out.single) =>
                 MultiResults[i].blocks_scanned = out.single[i].value[1].blocks_scanned

\* The header of block b exists and its bloom holds the address.
BloomIndicates(d, b, address) ==
    \E h \in d.headers : h.key = b /\ AddressBytes(address) \in h.logs_bloom

\* C13: in a multi-address sweep blocks_skipped_by_bloom is counted per
\* address: for each address it is the number of blocks of the range other
\* than those whose bloom indicates that address.
C13_SkippedPerSubject ==
    MultiDone =>
        \A i \in 1..Len(req.addresses) :
            MultiResults[i].blocks_skipped_by_bloom =
                Cardinality({b \in RangeBlocks :
                                ~BloomIndicates(db, b, req.addresses[i])})

----------------------------------------------------------------------------
(* Specification SpecBatch: batches of several descriptors read through    *)
(* both entry points                                                        *)

OtherAddr == Max(Addresses)
OtherPoolId == Max(PoolIds)
OtherSlot0Word == {1, 161, 240}

\* A pool of the clone layout keeps these where the default layout keeps
\* nothing: liquidity in slot 5, a bitmap word and a tick word in the
\* mappings of slots 7 and 6.
DialectSlots ==
    { Slot(PoolAddr, simple_slot(PANCAKESWAP_V3_LIQUIDITY), ConstVals(LiquidityWord)),
      Slot(PoolAddr, bitmap_slot(1, PANCAKESWAP_V3_TICK_BITMAP), ConstVals({4})),
      Slot(PoolAddr, tick_slot(260 * PoolSpacing, PANCAKESWAP_V3_TICKS),
           ConstVals(TickWord)) }

BatchFixedSlots ==
    PoolFixedSlots \cup PoolHeadSlots \cup
    { Slot(PoolAddr, bitmap_slot(0, V3_TICK_BITMAP), ConstVals({0, 2, 3})),
      Slot(PoolAddr, tick_slot(3 * PoolSpacing, V3_TICKS), StepVals(TickWordNegative)),
      Slot(PoolAddr, v4_slot0_slot(OtherPoolId), ConstVals(OtherSlot0Word)),
      Slot(PoolAddr, v4_bitmap_slot(OtherPoolId, -1), ConstVals({255})),
      Slot(PoolAddr, v4_tick_slot(OtherPoolId, -PoolSpacing), ConstVals(TickWord)),
      Slot(OtherAddr, simple_slot(V2_RESERVE), ConstVals(ReservesWordB)) }

BatchDbs ==
    {StorageDb(BatchFixedSlots \cup liq \cup dialect) :
        liq \in {{Slot(PoolAddr, simple_slot(V3_LIQUIDITY), ConstVals(LiquidityWord))},
                 {Slot(PoolAddr, simple_slot(V3_LIQUIDITY), ConstVals(LiquidityWide))}},
        dialect \in {{}, DialectSlots}}

\* A descriptor with the slot0_only flag set.
HeaderOnly(pool) == [pool EXCEPT !.slot0_only = TRUE]

\* The factory of the original V3 deployment, as its 20 bytes.
UNISWAP_V3_FACTORY ==
    <<31, 152, 67, 28, 138, 217, 133, 35, 99, 26, 228, 165, 159, 38, 115, 70,
      234, 49, 249, 132>>

\* The batches: pools, the paired pool ids, and the factory each pool was
\* deployed by as far as the caller knows it (PoolInput has no field for it).
Batch(pools, v4_pool_ids) ==
    [pools |-> pools, v4_pool_ids |-> v4_pool_ids,
     factories |-> [i \in 1..Len(pools) |-> None]]

BatchMenu ==
    LET v2 == Descriptor(PoolAddr, "UniswapV2", None)
        v2other == Descriptor(OtherAddr, "UniswapV2", None)
        v2spaced == Descriptor(PoolAddr, "UniswapV2", Some(PoolSpacing))
        v3 == Descriptor(PoolAddr, "UniswapV3", Some(PoolSpacing))
        v3bare == Descriptor(PoolAddr, "UniswapV3", None)
        v4 == Descriptor(PoolAddr, "UniswapV4", Some(PoolSpacing))
        v4bare == Descriptor(PoolAddr, "UniswapV4", None)
    IN { Batch(<<>>, None),
         Batch(<<v2, v4, v3, v4>>, Some(<<PoolId, OtherPoolId>>)),
         Batch(<<v4, v2other, v4>>, Some(<<OtherPoolId, PoolId>>)),
         Batch(<<v2, v4>>, None),
         Batch(<<v4, v3, v4, v2other>>, Some(<<PoolId>>)),
         Batch(<<v4>>, Some(<<>>)),
         Batch(<<v2, v3>>, None),
         Batch(<<v3, v4>>, Some(<<OtherPoolId, PoolId>>)),
         Batch(<<v2, v3bare, v2other>>, None),
         Batch(<<v4bare, v2other>>, Some(<<PoolId>>)),
         Batch(<<v4bare>>, None),
         Batch(<<v2spaced, v2other>>, None),
         Batch(<<HeaderOnly(v3)>>, None),
         Batch(<<v2, HeaderOnly(v4)>>, Some(<<PoolId>>)),
         [Batch(<<v3>>, None) EXCEPT !.factories = <<Some(PANCAKESWAP_V3)>>],
         [Batch(<<v3>>, None) EXCEPT !.factories = <<Some(UNISWAP_V3_FACTORY)>>] }

BatchInit ==
    /\ db \in BatchDbs
    /\ \E b \in BatchMenu, h \in PoolHeights :
          req = [op |-> "collect", pools |-> b.pools, v4_pool_ids |-> b.v4_pool_ids,
                 factories |-> b.factories, block_number |-> h]
    /\ pc = "idle"
    /\ out = [current |-> None, historical |-> None]
    /\ reads = <<>>

SpecBatch == BatchInit /\ [][PoolNext]_vars

----------------------------------------------------------------------------
(* Claims about the batch entry points *)

CurrentResult == out.current[1]
HistoricalResult == out.historical[1]

\* The reads a call issued for the descriptor at position i.
PoolReads(result, i) == SelectSeq(result.reads, LAMBDA x : x.pool = i)

\* The number of V4 descriptors among the first i descriptors.
V4Rank(pools, i) == Cardinality({j \in 1..i : pools[j].protocol = "UniswapV4"})

\* The mapping slot a mapping key was derived with (KeccakPair read backwards).
MappingSlotOf(key) == (key - 512) % 512

\* The key is one of the storage keys of the V4 pool with the given id.
KeyedByPoolId(key, pool_id) ==
    \/ key = v4_slot0_slot(pool_id)
    \/ key = v4_liquidity_slot(pool_id)
    \/ /\ key >= 512
       /\ MappingSlotOf(key) \in
            {add_offset(pool_base_slot(pool_id), V4_TICKS_OFFSET),
             add_offset(pool_base_slot(pool_id), V4_TICK_BITMAP_OFFSET)}

\* The k-th V4 descriptor was read with the k-th pool id.
PairedByPosition(result, i, S) ==
    LET pool_id == req.v4_pool_ids[1][V4Rank(req.pools, i)]
        issued == PoolReads(result, i)
    IN /\ S.pool_id = Some(pool_id)
       /\ issued # <<>>
       /\ issued[1].key = v4_slot0_slot(pool_id)
       /\ \A n \in 1..Len(issued) : KeyedByPoolId(issued[n].key, pool_id)

\* C14: in collect_pool_data and collect_pool_data_at_block the k-th V4
\* descriptor of the input (counting V4 descriptors only, in input order) is
\* read with pool_ids[k], however many V2/V3 descriptors come before it, and
\* its snapshot's pool_id is pool_ids[k].
C14_V4PairedByPosition ==
    /\ CurrentDone =>
         \A i \in 1..Len(req.pools) :
            req.pools[i].protocol = "UniswapV4" =>
                PairedByPosition(CurrentResult, i, CurrentSnapshot(i))
    /\ HistoricalDone =>
         \A i \in 1..Len(req.pools) :
            req.pools[i].protocol = "UniswapV4" =>
                PairedByPosition(HistoricalResult, i, HistoricalSnapshot(i))

\* C14 witness: both calls succeeded on a batch whose fourth descriptor is
\* its second V4 descriptor, read with the second of two different pool ids.
C14_Witness ==
    /\ CurrentDone /\ HistoricalDone
    /\ Len(req.pools) = 4
    /\ req.pools[4].protocol = "UniswapV4"
    /\ V4Rank(req.pools, 4) = 2
    /\ req.v4_pool_ids[1][1] # req.v4_pool_ids[1][2]
    /\ CurrentSnapshot(4).pool_id = Some(req.v4_pool_ids[1][2])
    /\ HistoricalSnapshot(4).pool_id = Some(req.v4_pool_ids[1][2])

\* The pool ids the request supplies, and the V4 descriptors it holds.
IdsAvailable == IF req.v4_pool_ids = None THEN 0 ELSE Len(req.v4_pool_ids[1])
V4Count == V4Rank(req.pools, Len(req.pools))

\* The position of the first V4 descriptor no pool id is left for.
FirstUnpaired ==
    Min({i \in 1..Len(req.pools) :
            req.pools[i].protocol = "UniswapV4" /\ V4Rank(req.pools, i) > IdsAvailable})

\* A V3/V4 descriptor before position i has no tick spacing.
SpacingMissingBefore(i) ==
    \E j \in 1..(i - 1) : IsTickPool(req.pools[j]) /\ req.pools[j].tick_spacing = None

PoolIdErrors ==
    {Err("V4 pools require pool_ids parameter"),
     Err("Not enough pool IDs provided for V4 pools")}

IsPoolIdError(result) ==
    \E e \in PoolIdErrors : result.status = e.status /\ result.value = e.value

\* The rule of C15 for the result of one of the two entry points.
PoolIdRule(result) ==
    /\ V4Count > IdsAvailable =>
         /\ result.status # "ok"
         /\ (result.status = "err" /\ ~SpacingMissingBefore(FirstUnpaired)) =>
               /\ IsPoolIdError(result)
               /\ (req.v4_pool_ids = None) =
                      (result.value = Err("V4 pools require pool_ids parameter").value)
               /\ \A n \in 1..Len(result.reads) : result.reads[n].pool < FirstUnpaired
    /\ V4Count <= IdsAvailable =>
         /\ ~IsPoolIdError(result)
         /\ ~SpacingMissingBefore(Len(req.pools) + 1) => result.status # "err"

\* C15: a batch with a V4 descriptor and no pool-id list, or with fewer pool
\* ids than V4 descriptors, makes collect_pool_data and
\* collect_pool_data_at_block fail with the pool-id error (unless an earlier
\* descriptor already ended the call); a batch with no V4 descriptor is not
\* refused for its absent list, and surplus pool ids are not an error.
C15_PoolIdListTooShort ==
    req.op = "collect" =>
        /\ out.current # None => PoolIdRule(CurrentResult)
        /\ out.historical # None => PoolIdRule(HistoricalResult)

\* C15 witness: a list of one pool id for two V4 descriptors; both calls read
\* the first V4 descriptor and the V3 descriptor after it, then returned the
\* error at the second V4 descriptor.
C15_Witness ==
    /\ req.op = "collect" /\ out.current # None /\ out.historical # None
    /\ IdsAvailable = 1 /\ V4Count = 2
    /\ FirstUnpaired = 3
    /\ CurrentResult = Issued(Err("Not enough pool IDs provided for V4 pools"),
                              CurrentResult.reads)
    /\ HistoricalResult = Issued(Err("Not enough pool IDs provided for V4 pools"),
                                 HistoricalResult.reads)
    /\ \E n \in 1..Len(CurrentResult.reads) : CurrentResult.reads[n].pool = 2

\* The position of the first V3/V4 descriptor that has no tick spacing.
FirstBare ==
    Min({i \in 1..Len(req.pools) :
            IsTickPool(req.pools[i]) /\ req.pools[i].tick_spacing = None})

MissingSpacing(pool) ==
    IF pool.protocol = "UniswapV3" THEN Err("V3 pool missing tick_spacing")
    ELSE Err("V4 pool missing tick_spacing")

\* The rule of C16 for the result of one of the two entry points.
SpacingRule(result) ==
    /\ SpacingMissingBefore(Len(req.pools) + 1) =>
         /\ result.status # "ok"
         /\ (result.status = "err" /\ ~IsPoolIdError(result)) =>
               /\ result.value = MissingSpacing(req.pools[FirstBare]).value
               /\ PoolReads(result, FirstBare) = <<>>
               /\ \A n \in 1..Len(result.reads) : result.reads[n].pool < FirstBare
    /\ (\A i \in 1..Len(req.pools) : req.pools[i].protocol = "UniswapV2") =>
         /\ result.status = "ok"
         /\ Len(result.value[1]) = Len(req.pools)
         /\ \A i \in 1..Len(req.pools) : Len(PoolReads(result, i)) = 1

\* C16: a V3 or V4 descriptor without a tick spacing makes the current and
\* the historical reader return the missing-tick-spacing error with no store
\* read issued for that pool; a V2 descriptor is read successfully whether or
\* not it carries a tick spacing.
C16_MissingTickSpacing ==
    /\ req.op = "collect" =>
         /\ out.current # None => SpacingRule(CurrentResult)
         /\ out.historical # None => SpacingRule(HistoricalResult)
         /\ CurrentDone =>
               \A i \in 1..Len(req.pools) :
                   req.pools[i].protocol = "UniswapV2" =>
                       CurrentSnapshot(i).reserves # None
         /\ HistoricalDone =>
               \A i \in 1..Len(req.pools) :
                   req.pools[i].protocol = "UniswapV2" =>
                       HistoricalSnapshot(i).reserves # None
    /\ req.op = "collect" =>
         \A i \in 1..Len(req.pools), overflow_checks \in BOOLEAN :
            LET pool == req.pools[i] IN
            /\ (pool.protocol = "UniswapV3" /\ pool.tick_spacing = None) =>
                  /\ read_v3_pool(db, pool, overflow_checks)
                        = Issued(MissingSpacing(pool), <<>>)
                  /\ read_v3_pool_at_block(db, pool, req.block_number, overflow_checks)
                        = Issued(MissingSpacing(pool), <<>>)
            /\ (pool.protocol = "UniswapV4" /\ pool.tick_spacing = None) =>
                  \A pool_id \in PoolIds :
                     /\ read_v4_pool(db, pool, pool_id, overflow_checks)
                           = Issued(MissingSpacing(pool), <<>>)
                     /\ read_v4_pool_at_block(db, pool, pool_id, req.block_number,
                                              overflow_checks)
                           = Issued(MissingSpacing(pool), <<>>)
            /\ pool.protocol = "UniswapV2" =>
                  /\ read_v2_pool(db, pool).status = "ok"
                  /\ read_v2_pool_at_block(db, pool, req.block_number).status = "ok"

\* C16 witness: a batch whose second descriptor is a V3 pool without a tick
\* spacing; both calls read the V2 descriptor before it, returned the error
\* and issued no read for the V3 pool.
C16_Witness ==
    /\ req.op = "collect" /\ out.current # None /\ out.historical # None
    /\ Len(req.pools) = 3 /\ FirstBare = 2
    /\ req.pools[1].protocol = "UniswapV2" /\ req.pools[1].tick_spacing = None
    /\ req.pools[2].protocol = "UniswapV3"
    /\ CurrentResult.status = "err"
    /\ CurrentResult.value = <<"V3 pool missing tick_spacing">>
    /\ HistoricalResult.status = "err"
    /\ HistoricalResult.value = <<"V3 pool missing tick_spacing">>
    /\ Len(PoolReads(CurrentResult, 1)) = 1 /\ PoolReads(CurrentResult, 2) = <<>>
    /\ Len(PoolReads(HistoricalResult, 1)) = 1 /\ PoolReads(HistoricalResult, 2) = <<>>

\* The positions whose descriptor cannot be read: a V4 descriptor no pool id
\* is left for, or a V3/V4 descriptor without a tick spacing.
FailingPositions ==
    {i \in 1..Len(req.pools) :
        \/ req.pools[i].protocol = "UniswapV4" /\ V4Rank(req.pools, i) > IdsAvailable
        \/ IsTickPool(req.pools[i]) /\ req.pools[i].tick_spacing = None}

FirstFailing == Min(FailingPositions)

\* The error of reading the descriptor at position i of the request.
ErrorAt(i) ==
    IF req.pools[i].protocol = "UniswapV4" /\ V4Rank(req.pools, i) > IdsAvailable
    THEN IF req.v4_pool_ids = None THEN Err("V4 pools require pool_ids parameter")
         ELSE Err("Not enough pool IDs provided for V4 pools")
    ELSE MissingSpacing(req.pools[i])

\* The rule of C17 for the result of one of the two entry points.
AbortRule(result) ==
    /\ FailingPositions # {} => result.status # "ok"
    /\ result.status = "err" =>
          /\ FailingPositions # {}
          /\ result.value = ErrorAt(FirstFailing).value
          /\ \A j \in 1..(FirstFailing - 1) : PoolReads(result, j) # <<>>
          /\ \A n \in 1..Len(result.reads) : result.reads[n].pool <= FirstFailing
    /\ result.status = "ok" =>
          /\ Len(result.value[1]) = Len(req.pools)
          /\ \A j \in 1..Len(req.pools) : PoolReads(result, j) # <<>>
          /\ \A n \in 1..(Len(result.reads) - 1) :
                result.reads[n].pool <= result.reads[n + 1].pool

\* C17: when reading the i-th descriptor of a batch fails, collect_pool_data
\* and collect_pool_data_at_block return that error and nothing else (no
\* snapshot of descriptors before i) and issue no read for a descriptor after
\* i; when they succeed the output holds one snapshot per descriptor, in input
\* order.
C17_BatchAbort ==
    req.op = "collect" =>
        /\ out.current # None => AbortRule(CurrentResult)
        /\ out.historical # None => AbortRule(HistoricalResult)
        /\ CurrentDone =>
              \A i \in 1..Len(req.pools) :
                  /\ CurrentSnapshot(i).address = req.pools[i].address
                  /\ CurrentSnapshot(i).protocol = req.pools[i].protocol
        /\ HistoricalDone =>
              \A i \in 1..Len(req.pools) :
                  /\ HistoricalSnapshot(i).address = req.pools[i].address
                  /\ HistoricalSnapshot(i).protocol = req.pools[i].protocol
                  /\ HistoricalResult.value[1][i].block_number = req.block_number

\* C17 witness: the third of four descriptors fails after two snapshots were
\* built; both calls returned only the error and issued no read for the
\* fourth descriptor.
C17_Witness ==
    /\ req.op = "collect" /\ out.current # None /\ out.historical # None
    /\ Len(req.pools) = 4 /\ FirstFailing = 3
    /\ CurrentResult.status = "err" /\ HistoricalResult.status = "err"
    /\ CurrentResult.value = ErrorAt(3).value
    /\ HistoricalResult.value = ErrorAt(3).value
    /\ PoolReads(CurrentResult, 1) # <<>> /\ PoolReads(CurrentResult, 2) # <<>>
    /\ PoolReads(HistoricalResult, 1) # <<>> /\ PoolReads(HistoricalResult, 2) # <<>>
    /\ PoolReads(CurrentResult, 4) = <<>> /\ PoolReads(HistoricalResult, 4) = <<>>

\* The keys of the header and liquidity words of the descriptor at position i.
HeaderKeys(i) ==
    IF req.pools[i].protocol = "UniswapV3"
    THEN {simple_slot(V3_SLOT0), simple_slot(V3_LIQUIDITY)}
    ELSE LET pool_id == req.v4_pool_ids[1][V4Rank(req.pools, i)]
         IN {v4_slot0_slot(pool_id), v4_liquidity_slot(pool_id)}

\* C18: for a V3 or V4 descriptor with the slot0_only flag set,
\* collect_pool_data reads only the header and liquidity words of the pool,
\* issues no bitmap or tick read, and returns a snapshot with empty ticks and
\* bitmaps lists, whatever bitmap words the store holds.
C18_HeaderOnlyFastPath ==
    CurrentDone =>
        \A i \in 1..Len(req.pools) :
            (IsTickPool(req.pools[i]) /\ req.pools[i].slot0_only) =>
                /\ {PoolReads(CurrentResult, i)[n].key :
                        n \in 1..Len(PoolReads(CurrentResult, i))} = HeaderKeys(i)
                /\ CurrentSnapshot(i).ticks = <<>>
                /\ CurrentSnapshot(i).bitmaps = <<>>

\* The keys a call read for the descriptor at position i.
KeysRead(result, i) ==
    {PoolReads(result, i)[n].key : n \in 1..Len(PoolReads(result, i))}

\* Every read for the V3 descriptor at position i uses the slot numbers of
\* its factory: the header word, the liquidity word, and mapping keys of the
\* ticks and bitmap mappings.
ReadWithDialect(result, i) ==
    LET slots == v3_slots_for_factory(req.factories[i])
        keys == KeysRead(result, i)
    IN /\ simple_slot(slots.slot0) \in keys
       /\ \A key \in keys :
             \/ key = simple_slot(slots.slot0)
             \/ key = simple_slot(slots.liquidity)
             \/ key >= 512 /\ MappingSlotOf(key) \in {slots.ticks, slots.tick_bitmap}
       /\ \E key \in keys : key >= 512 /\ MappingSlotOf(key) = slots.tick_bitmap

\* C19: for a V3 descriptor whose factory is the known dialect factory the
\* current and the historical V3 read take liquidity, tick records and bitmap
\* words from mapping slots 5, 6 and 7, for any other or absent factory from
\* slots 4, 5 and 6; the header is read from slot 0 in both cases.
C19_FactoryDialectOnReads ==
    /\ CurrentDone =>
          \A i \in 1..Len(req.pools) :
              req.pools[i].protocol = "UniswapV3" => ReadWithDialect(CurrentResult, i)
    /\ HistoricalDone =>
          \A i \in 1..Len(req.pools) :
              req.pools[i].protocol = "UniswapV3" =>
                  /\ ReadWithDialect(HistoricalResult, i)
                  /\ simple_slot(v3_slots_for_factory(req.factories[i]).liquidity)
                         \in KeysRead(HistoricalResult, i)

----------------------------------------------------------------------------
(* The slot numbers of a V3 pool by factory.  The factory reaches           *)
(* v3_slots_for_factory as an address parsed from a hex string, or not at   *)
(* all.                                                                     *)

\* The number of letters of an address whose case the inputs vary.
MaxCaseLetters == 6

\* The address strings of the tests of storage.rs, without the "0x".
PancakeLowerText ==
    <<"0", "b", "f", "b", "c", "f", "9", "f", "a", "4",
      "f", "9", "c", "5", "6", "b", "0", "f", "4", "0",
      "a", "6", "7", "1", "a", "d", "4", "0", "e", "0",
      "8", "0", "5", "a", "0", "9", "1", "8", "6", "5">>
PancakeMixedText ==
    <<"0", "B", "F", "b", "C", "F", "9", "f", "a", "4",
      "f", "9", "C", "5", "6", "B", "0", "F", "4", "0",
      "a", "6", "7", "1", "A", "d", "4", "0", "E", "0",
      "8", "0", "5", "A", "0", "9", "1", "8", "6", "5">>
UniswapMixedText ==
    <<"1", "F", "9", "8", "4", "3", "1", "c", "8", "a",
      "D", "9", "8", "5", "2", "3", "6", "3", "1", "A",
      "E", "4", "a", "5", "9", "f", "2", "6", "7", "3",
      "4", "6", "e", "a", "3", "1", "F", "9", "8", "4">>

\* The positions of the first MaxCaseLetters letters of a string of hex digits.
LetterPositions(text) ==
    LET letters == {i \in 1..Len(text) : HexValue(text[i]) >= 10}
    IN {i \in letters : Cardinality({j \in letters : j < i}) < MaxCaseLetters}

\* The string with the letters at the positions in upper written in upper
\* case and every other letter in lower case.
WithCase(text, upper) ==
    [i \in 1..Len(text) |->
        IF i \in upper THEN HexUpper[HexValue(text[i]) + 1]
        ELSE HexLower[HexValue(text[i]) + 1]]

\* The string with the digit at position i replaced by the next digit.
WithDigitChanged(text, i) ==
    [text EXCEPT ![i] = HexLower[((HexValue(@) + 1) % 16) + 1]]

FactoryTexts ==
    LET bare ==
            {WithCase(PancakeLowerText, upper) :
                upper \in SUBSET LetterPositions(PancakeLowerText)}
            \cup {PancakeMixedText, UniswapMixedText, WithCase(UniswapMixedText, {})}
            \cup {WithDigitChanged(PancakeLowerText, i) : i \in 1..Len(PancakeLowerText)}
            \cup {WithDigitChanged(PancakeMixedText, i) : i \in {1, 20, 40}}
    IN bare
       \cup {<<"0", "x">> \o text : text \in bare}
       \cup {<<>>, <<"0", "x">>, SubSeq(PancakeLowerText, 1, 39),
             PancakeLowerText \o <<"5">>,
             [PancakeLowerText EXCEPT ![2] = "g"],
             <<"0", "X">> \o PancakeLowerText}

SlotsInit ==
    /\ db = EmptyDb
    /\ \E factory \in {None} \cup {Some(text) : text \in FactoryTexts} :
          req = [op |-> "slots", factory |-> factory]
    /\ pc = "idle"
    /\ out = None
    /\ reads = <<>>

\* text.parse::<Address>() and v3_slots_for_factory on the parsed address; an
\* absent factory is passed on as None.
DeriveSlots ==
    /\ req.op = "slots"
    /\ out = None
    /\ out' = Some(IF req.factory = None THEN Ok(v3_slots_for_factory(None))
                   ELSE The({IF address = None THEN Err("invalid address")
                             ELSE Ok(v3_slots_for_factory(address))
                             : address \in {ParseAddress(req.factory[1])}}))
    /\ UNCHANGED <<db, req, pc, reads>>

SlotsNext == DeriveSlots

SpecSlots == SlotsInit /\ [][SlotsNext]_vars

----------------------------------------------------------------------------
(* Claims about the slot numbers *)

\* A letter folded to lower case; every other character is itself.
FoldCase(c) ==
    CASE c = "A" -> "a" [] c = "B" -> "b" [] c = "C" -> "c"
      [] c = "D" -> "d" [] c = "E" -> "e" [] c = "F" -> "f"
      [] OTHER -> c

\* The digits of an address string: the text after an optional "0x".
DigitsOf(text) ==
    IF Len(text) >= 2 /\ SubSeq(text, 1, 2) = <<"0", "x">>
    THEN SubSeq(text, 3, Len(text)) ELSE text

\* The string names the known dialect factory, in whatever letter case.
NamesDialectFactory(text) ==
    [i \in 1..Len(DigitsOf(text)) |-> FoldCase(DigitsOf(text)[i])] = PancakeLowerText

SlotsDone == req.op = "slots" /\ out # None /\ out[1].status = "ok"

\* C20: v3_slots_for_factory returns slot0 0, liquidity 5, ticks 6 and bitmap
\* 7 exactly when the factory is present and is the known dialect factory
\* address, whatever the letter case of the string it was parsed from, and
\* slot0 0, liquidity 4, ticks 5 and bitmap 6 for every other address and for
\* an absent factory.
C20_SlotsForFactory ==
    SlotsDone =>
        out[1].value[1] =
            IF req.factory # None /\ NamesDialectFactory(req.factory[1])
            THEN [slot0 |-> 0, liquidity |-> 5, ticks |-> 6, tick_bitmap |-> 7]
            ELSE [slot0 |-> 0, liquidity |-> 4, ticks |-> 5, tick_bitmap |-> 6]

\* C20 witness: the dialect factory written with letters of both cases was
\* parsed and the shifted slot numbers were returned.
C20_Witness ==
    /\ SlotsDone
    /\ req.factory # None
    /\ \E i, j \in 1..Len(req.factory[1]) :
          /\ req.factory[1][i] \in {"B", "F", "C"}
          /\ req.factory[1][j] \in {"b", "f", "c"}
    /\ out[1].value[1].liquidity = 5
    /\ out[1].value[1].tick_bitmap = 7

----------------------------------------------------------------------------
(* Claims about the shape and the fields of the snapshots *)

\* The fields a snapshot of the given descriptor must and must not carry.
WellShaped(snapshot, pool) ==
    /\ snapshot.address = pool.address
    /\ snapshot.protocol = pool.protocol
    /\ (snapshot.slot0 # None) = IsTickPool(pool)
    /\ (snapshot.liquidity # None) = IsTickPool(pool)
    /\ (snapshot.reserves # None) = (pool.protocol = "UniswapV2")
    /\ (snapshot.pool_id # None) = (pool.protocol = "UniswapV4")
    /\ pool.protocol = "UniswapV2" => snapshot.ticks = <<>> /\ snapshot.bitmaps = <<>>

\* C21: in every snapshot a current or historical reader returns, slot0 and
\* liquidity are present iff the protocol is V3 or V4, reserves iff it is V2,
\* pool_id iff it is V4, a V2 snapshot has empty ticks and bitmaps, and the
\* protocol tag and address are those of the descriptor.
C21_SnapshotShape ==
    /\ CurrentDone =>
          \A i \in 1..Len(req.pools) : WellShaped(CurrentSnapshot(i), req.pools[i])
    /\ HistoricalDone =>
          \A i \in 1..Len(req.pools) : WellShaped(HistoricalSnapshot(i), req.pools[i])

----------------------------------------------------------------------------
(* Specification SpecDecode: the decoders of decoding.rs on one word       *)

\* The bits of a natural number below 2^width.
NatBits(n, width) == {b \in 0..(width - 1) : (n \div (2 ^ b)) % 2 = 1}

\* A word's bits moved up by lo.
ShiftLeft(bits, lo) == {b + lo : b \in bits}

\* The header word Solidity packs from right to left; the tick is an int24.
PackSlot0(f) ==
    f.sqrt_price_x96
    \cup ShiftLeft(NatBits(IF f.tick < 0 THEN f.tick + 16777216 ELSE f.tick, 24), 160)
    \cup ShiftLeft(NatBits(f.observation_index, 16), 184)
    \cup ShiftLeft(NatBits(f.observation_cardinality, 16), 200)
    \cup ShiftLeft(NatBits(f.observation_cardinality_next, 16), 216)
    \cup ShiftLeft(NatBits(f.fee_protocol, 8), 232)
    \cup (IF f.unlocked THEN {240} ELSE {})

Slot0Fields ==
    [sqrt_price_x96 : {{}, {3, 5, 159}},
     tick : {-8388608, MIN_TICK, -100, -1, 0, 100, 8388607},
     observation_index : {0, 5, 65535},
     observation_cardinality : {10},
     observation_cardinality_next : {20, 65535},
     fee_protocol : {0, 3, 255},
     unlocked : BOOLEAN]

ALL_ONES == 0..255

\* Header words that no packing produces: bits above bit 240 are set.
UnpackedWords == {ALL_ONES, Slot0Word, {241}, {247}, {240, 255}, {255}}

\* Tick words: a low half (liquidity_gross) and a high half (liquidity_net).
TickHalves == {{}, {0}, {5, 126}, {127}, {0, 127}, {3, 64, 127}, 0..126, 0..127}
TickWords == {low \cup ShiftLeft(high, 128) : low \in TickHalves, high \in TickHalves}

DecodeInit ==
    /\ db = EmptyDb
    /\ \/ \E f \in Slot0Fields :
             req = [op |-> "decode", word |-> PackSlot0(f), fields |-> Some(f)]
       \/ \E w \in UnpackedWords \cup TickWords :
             req = [op |-> "decode", word |-> w, fields |-> None]
    /\ pc = "idle"
    /\ out = [slot0 |-> None, tick |-> None]
    /\ reads = <<>>

\* decoding.rs decode_slot0 on the word in req.
DecodeSlot0 ==
    /\ req.op = "decode"
    /\ out.slot0 = None
    /\ out' = [out EXCEPT !.slot0 = Some(Ok(decode_slot0(req.word)))]
    /\ UNCHANGED <<db, req, pc, reads>>

\* decoding.rs decode_tick_info on the word in req; the negation of the i128
\* panics on overflow in a build that checks it and wraps otherwise.
DecodeTickInfo ==
    /\ req.op = "decode"
    /\ out.tick = None
    /\ \E overflow_checks \in BOOLEAN, tick \in {MIN_TICK, 0, 60} :
          out' = [out EXCEPT !.tick =
                     Some(The({IF d.overflow /\ overflow_checks
                               THEN Panic("attempt to negate with overflow")
                               ELSE Ok(d.tick)
                               : d \in {decode_tick_info(tick, req.word)}}))]
    /\ UNCHANGED <<db, req, pc, reads>>

DecodeNext == DecodeSlot0 \/ DecodeTickInfo

SpecDecode == DecodeInit /\ [][DecodeNext]_vars

----------------------------------------------------------------------------
(* Claims about the decoders *)

\* The number written in bits lo .. lo + width - 1 of a word (width <= 24).
RECURSIVE FieldValue(_, _, _)
FieldValue(word, lo, width) ==
    IF width = 0 THEN 0
    ELSE 2 * FieldValue(word, lo + 1, width - 1) + (IF lo \in word THEN 1 ELSE 0)

Slot0Decoded == req.op = "decode" /\ out.slot0 # None

\* C22: decode_slot0 returns a header for every 256-bit word, and inverts the
\* right-to-left packing: sqrt_price is bits 0..160, tick bits 160..184 sign
\* extended from 24 bits, the observation counters bits 184..200, 200..216 and
\* 216..232, fee_protocol bits 232..240 and unlocked bit 240 alone; all ones
\* gives 2^160 - 1, -1, 0xFFFF three times, 0xFF and true, and a tick field of
\* 0xFFFF9C gives -100.
C22_DecodeSlot0 ==
    Slot0Decoded =>
        LET result == out.slot0[1]
            slot0 == result.value[1]
            word == req.word
        IN /\ result.status = "ok"
           /\ slot0.sqrt_price_x96 = {b \in word : b < 160}
           /\ slot0.tick = FieldValue(word, 160, 24)
                              - (IF 183 \in word THEN 16777216 ELSE 0)
           /\ slot0.observation_index = FieldValue(word, 184, 16)
           /\ slot0.observation_cardinality = FieldValue(word, 200, 16)
           /\ slot0.observation_cardinality_next = FieldValue(word, 216, 16)
           /\ slot0.fee_protocol = FieldValue(word, 232, 8)
           /\ slot0.unlocked = (240 \in word)
           /\ req.fields # None =>
                 \A name \in DOMAIN req.fields[1] : slot0[name] = req.fields[1][name]
           /\ word = ALL_ONES =>
                 /\ slot0.sqrt_price_x96 = 0..159
                 /\ slot0.tick = -1
                 /\ slot0.observation_index = 65535
                 /\ slot0.observation_cardinality = 65535
                 /\ slot0.observation_cardinality_next = 65535
                 /\ slot0.fee_protocol = 255
                 /\ slot0.unlocked
           /\ FieldValue(word, 160, 24) = 16777116 => slot0.tick = -100

\* C22 witness: a packed header with a negative tick and the unlocked flag
\* clear was decoded back to its fields.
C22_Witness ==
    /\ Slot0Decoded
    /\ req.fields # None
    /\ req.fields[1].tick = -100
    /\ ~req.fields[1].unlocked
    /\ req.fields[1].fee_protocol = 255
    /\ out.slot0[1].value[1].tick = -100
    /\ ~out.slot0[1].value[1].unlocked

\* The 128-bit pattern minus one (pattern # 0), and its complement: together
\* the magnitude of the negative number a two's-complement pattern stands for.
MinusOne128(bits) ==
    (bits \ {Min(bits)}) \cup {b \in 0..127 : b < Min(bits)}
Complement128(bits) == {b \in 0..127 : b \notin bits}

\* The signed 128-bit value of a pattern, as sign and magnitude.
Signed128(bits) ==
    IF 127 \in bits THEN [negative |-> TRUE, magnitude |-> Complement128(MinusOne128(bits))]
    ELSE [negative |-> FALSE, magnitude |-> bits]

TickDecoded == req.op = "decode" /\ out.tick # None

\* C23: decode_tick_info returns a tick record for every 256-bit word:
\* liquidity_gross is the low 128 bits unsigned, liquidity_net the high 128
\* bits as a two's-complement signed value (-2^127 for a high half of 2^127,
\* -1 for all ones), and initialized is true iff the word is nonzero.
C23_DecodeTickInfoTotal ==
    TickDecoded =>
        LET result == out.tick[1]
            high == {b - 128 : b \in {c \in req.word : c >= 128}}
        IN /\ result.status = "ok"
           /\ result.value[1].liquidity_gross = {b \in req.word : b < 128}
           /\ result.value[1].liquidity_net = Signed128(high)
           /\ result.value[1].initialized = (req.word # {})

----------------------------------------------------------------------------
(* Claims about the fields of the V3/V4 snapshots *)

\* The key of the liquidity word of the tick pool at position i of the batch.
LiquidityKeyOf(i) ==
    IF req.pools[i].protocol = "UniswapV3" THEN simple_slot(V3_LIQUIDITY)
    ELSE v4_liquidity_slot(req.v4_pool_ids[1][V4Rank(req.pools, i)])

Low128(word) == {b \in word : b < 128}

\* C24: the liquidity of every V3/V4 snapshot is the lower 128 bits of the
\* word at the pool's liquidity slot (zero if the slot is absent), whatever
\* the upper 128 bits of the word are, and the read does not crash on a word
\* with upper bits set.
C24_LiquidityIsLow128 ==
    req.op = "collect" =>
        /\ out.historical # None =>
              ~(/\ HistoricalResult.status = "panic"
                /\ HistoricalResult.value = Panic("Uint conversion error").value)
        /\ HistoricalDone =>
              \A i \in 1..Len(req.pools) :
                  IsTickPool(req.pools[i]) =>
                      HistoricalSnapshot(i).liquidity =
                          Some(Low128(ValueAt(db, req.pools[i].address,
                                              LiquidityKeyOf(i), req.block_number)))
        /\ CurrentDone =>
              \A i \in 1..Len(req.pools) :
                  IsTickPool(req.pools[i]) =>
                      CurrentSnapshot(i).liquidity =
                          Some(Low128(ExactPlain(db, req.pools[i].address,
                                                 LiquidityKeyOf(i))))

----------------------------------------------------------------------------
(* events.rs suggest_block_chunk_size.  Block numbers and the sample size   *)
(* are u64: four 16-bit limbs, least significant first.                     *)

ToU64(n) == <<n % 65536, n \div 65536, 0, 0>>
U64_MAX == <<65535, 65535, 65535, 65535>>

\* a + b on u64: the wrapped sum, and whether the addition overflowed.
AddU64(a, b) ==
    LET s1 == a[1] + b[1]
        s2 == a[2] + b[2] + s1 \div 65536
        s3 == a[3] + b[3] + s2 \div 65536
        s4 == a[4] + b[4] + s3 \div 65536
    IN [overflow |-> s4 >= 65536,
        value |-> <<s1 % 65536, s2 % 65536, s3 % 65536, s4 % 65536>>]

LtU64(a, b) ==
    \E i \in 1..4 : a[i] < b[i] /\ \A j \in (i + 1)..4 : a[j] = b[j]

\* total_txs after the loop has visited the rows with the given keys.
RECURSIVE TotalTxs(_, _)
TotalTxs(bodies, keys) ==
    IF keys = {} THEN 0
    ELSE SeekExact(bodies, Min(keys))[1].tx_count + TotalTxs(bodies, keys \ {Min(keys)})

\* The loop visits every block number of the range; only the numbers that
\* have a row in BlockBodyIndices add to the counters.
suggest_block_chunk_size(d, sample_from_block, sample_size, overflow_checks) ==
    LET end == AddU64(sample_from_block, sample_size)
    IN IF end.overflow /\ overflow_checks THEN Panic("attempt to add with overflow")
       ELSE
       LET sampled == {r.key : r \in {x \in d.bodies :
                          /\ ~LtU64(ToU64(x.key), sample_from_block)
                          /\ LtU64(ToU64(x.key), end.value)}}
           total_txs == TotalTxs(d.bodies, sampled)
           blocks_sampled == Cardinality(sampled)
       IN IF blocks_sampled = 0 THEN Ok(10000)
          ELSE LET avg_txs_per_block == total_txs \div blocks_sampled
                   chunk_size == IF avg_txs_per_block > 0
                                 THEN 100000 \div avg_txs_per_block
                                 ELSE 10000
               IN Ok(Min({Max({chunk_size, 1000}), 50000}))

----------------------------------------------------------------------------
(* Specification SpecChunk: one call of suggest_block_chunk_size           *)

\* The blocks of the sampled chains and the transaction counts they may have.
ChunkBlocks == 3
ChunkTxCounts == {0, 1, 30, 150}

\* A chain of ChunkBlocks blocks; counts[b] = None: the block has no body
\* indices row.
ChunkDb(counts) ==
    [EmptyDb EXCEPT
        !.bodies = {[key |-> b,
                     first_tx_num |-> TotalTxs({[key |-> c, tx_count |->
                                                   IF counts[c] = None THEN 0
                                                   ELSE counts[c][1]] : c \in 1..(b - 1)},
                                               1..(b - 1)),
                     tx_count |-> counts[b][1]] :
                        b \in {c \in 1..ChunkBlocks : counts[c] # None}}]

ChunkDbs ==
    {ChunkDb(counts) :
        counts \in [1..ChunkBlocks -> {None} \cup {Some(n) : n \in ChunkTxCounts}]}

ChunkStarts == {ToU64(0), ToU64(1), ToU64(ChunkBlocks), ToU64(70000), U64_MAX}
ChunkSizes == {ToU64(0), ToU64(1), ToU64(2), ToU64(ChunkBlocks + 1), U64_MAX}

ChunkInit ==
    /\ db \in ChunkDbs
    /\ \E from \in ChunkStarts, size \in ChunkSizes :
          req = [op |-> "suggest", sample_from_block |-> from, sample_size |-> size]
    /\ pc = "idle"
    /\ out = None
    /\ reads = <<>>

\* events.rs suggest_block_chunk_size, called with the arguments in req.
SuggestBlockChunkSize ==
    /\ req.op = "suggest"
    /\ out = None
    /\ \E overflow_checks \in BOOLEAN :
          out' = Some(suggest_block_chunk_size(db, req.sample_from_block,
                                               req.sample_size, overflow_checks))
    /\ UNCHANGED <<db, req, pc, reads>>

ChunkNext == SuggestBlockChunkSize

SpecChunk == ChunkInit /\ [][ChunkNext]_vars

----------------------------------------------------------------------------
(* Claims about the chunk size *)

\* A u64 below 2^31 and its value.
IsSmallU64(u) == u[3] = 0 /\ u[4] = 0 /\ u[2] < 32768
NatOfU64(u) == u[1] + 65536 * u[2]

\* Block b lies in the sampled window [from, from + size).
InWindow(b) ==
    /\ IsSmallU64(req.sample_from_block)
    /\ NatOfU64(req.sample_from_block) <= b
    /\ (IsSmallU64(req.sample_size) =>
           b - NatOfU64(req.sample_from_block) < NatOfU64(req.sample_size))

\* The sampled blocks that have body indices, and their transactions.
SampledRows == {r \in db.bodies : InWindow(r.key)}

RECURSIVE TxSum(_)
TxSum(rows) ==
    IF rows = {} THEN 0
    ELSE LET r == CHOOSE x \in rows : TRUE IN r.tx_count + TxSum(rows \ {r})

FlooredAverage == TxSum(SampledRows) \div Cardinality(SampledRows)

ChunkDone == req.op = "suggest" /\ out # None

\* C25: suggest_block_chunk_size returns a value in [1000, 50000] for every
\* start block and sample size: 10000 when no sampled block has body indices
\* or the floored average transaction count is 0, else 100000 divided by the
\* floored average of the sampled blocks that have body indices, clamped to
\* [1000, 50000].
C25_ChunkSizeClamped ==
    ChunkDone =>
        /\ out[1].status = "ok"
        /\ out[1].value[1] \in 1000..50000
        /\ out[1].value[1] =
              IF SampledRows = {} THEN 10000
              ELSE IF FlooredAverage = 0 THEN 10000
              ELSE IF 100000 \div FlooredAverage < 1000 THEN 1000
              ELSE IF 100000 \div FlooredAverage > 50000 THEN 50000
              ELSE 100000 \div FlooredAverage

----------------------------------------------------------------------------
(* Claims about the order and the content of the tick records *)

\* Bitmaps by strictly ascending word position, ticks by strictly ascending
\* tick index.
Ascending(S) ==
    /\ \A j \in 1..(Len(S.bitmaps) - 1) : S.bitmaps[j].word_pos < S.bitmaps[j + 1].word_pos
    /\ \A j \in 1..(Len(S.ticks) - 1) : S.ticks[j].tick < S.ticks[j + 1].tick

\* C26: in every V3/V4 snapshot read with tick spacing >= 1, by the current
\* or the historical reader, the bitmaps are listed by strictly ascending
\* word position and the tick records by strictly ascending tick index.
C26_AscendingOrder ==
    /\ CurrentDone =>
         \A i \in 1..Len(req.pools) :
            (IsTickPool(req.pools[i]) /\ req.pools[i].tick_spacing[1] >= 1) =>
                Ascending(CurrentSnapshot(i))
    /\ HistoricalDone =>
         \A i \in 1..Len(req.pools) :
            (IsTickPool(req.pools[i]) /\ req.pools[i].tick_spacing[1] >= 1) =>
                Ascending(HistoricalSnapshot(i))

\* C27: the header record of the current-state reader equals decode_slot0 of
\* the header word it was read from, for every word: its unlocked flag is true
\* iff bit 240 of the word is set, also when bits 241..247 are set and bit 240
\* is clear.
C27_HeaderEqualsDecodeSlot0 ==
    CurrentDone =>
        \A i \in 1..Len(req.pools) :
            IsTickPool(req.pools[i]) =>
                LET slot0 == CurrentSnapshot(i).slot0[1]
                IN /\ slot0.raw_data # None
                   /\ slot0 = decode_slot0(slot0.raw_data[1])
                   /\ slot0.unlocked = (240 \in slot0.raw_data[1])

\* The decoded fields of a tick record of the historical reader for the word.
DecodedLiquidity(word) ==
    [gross |-> Low128(word),
     net |-> Signed128({b - 128 : b \in {c \in word : c >= 128}})]

\* C28: every tick record of a current-state V3/V4 snapshot carries the
\* liquidity_gross and liquidity_net decoded from the tick's nonzero primary
\* slot word (low 128 bits unsigned, high 128 bits signed), as the tick
\* records of the historical reader do for the same word.
C28_CurrentTicksDecoded ==
    /\ CurrentDone =>
          \A i \in 1..Len(req.pools) :
              IsTickPool(req.pools[i]) =>
                  \A j \in 1..Len(CurrentSnapshot(i).ticks) :
                      LET t == CurrentSnapshot(i).ticks[j]
                      IN /\ t.raw_data # None /\ t.raw_data[1] # ZERO
                         /\ t.liquidity_gross = DecodedLiquidity(t.raw_data[1]).gross
                         /\ t.liquidity_net = DecodedLiquidity(t.raw_data[1]).net
    /\ HistoricalDone =>
          \A i \in 1..Len(req.pools) :
              IsTickPool(req.pools[i]) =>
                  \A j \in 1..Len(HistoricalSnapshot(i).ticks) :
                      LET t == HistoricalSnapshot(i).ticks[j]
                      IN /\ t.raw_data # None /\ t.raw_data[1] # ZERO
                         /\ t.liquidity_gross = DecodedLiquidity(t.raw_data[1]).gross
                         /\ t.liquidity_net = DecodedLiquidity(t.raw_data[1]).net

----------------------------------------------------------------------------
(* Specification SpecPruned: the per-slot historical read over a database  *)
(* whose changeset table lost rows the history index still lists            *)

\* The database without the changeset rows of the given blocks: those of one
\* storage key only (key # None), or of every key.
WithoutChangesets(d, blocks, key) ==
    [d EXCEPT !.changesets =
        {c \in @ : ~(c.block \in blocks /\ (key = None \/ c.key = key[1]))}]

PrunedDbs ==
    {WithoutChangesets(d, cut.blocks, cut.key) :
        d \in HistDbs,
        cut \in {[blocks |-> 1..MaxBlock, key |-> Some(HistKey)],
                 [blocks |-> {2}, key |-> Some(HistKey)],
                 [blocks |-> 1..2, key |-> None]}}

PrunedInit ==
    /\ db \in PrunedDbs
    /\ req \in [op : {"get_storage_at_block"}, address : {HistAddr},
                key : {HistKey}, block : 0..MaxBlock]
    /\ pc = "idle"
    /\ out = None
    /\ reads = <<>>

SpecPruned == PrunedInit /\ [][HistNext]_vars

\* The first change block after the height asked for has no changeset row
\* under exactly the key asked for.
ChangesetMissing ==
    /\ LaterChanges(db, req.address, req.key, req.block) # {}
    /\ Recorded(db, Min(LaterChanges(db, req.address, req.key, req.block)),
                req.address, req.key) = {}

\* C29: when the history index lists a change block after h and the changeset
\* table has no entry under exactly (change block, address, key), because
\* the seek finds nothing or lands on a greater subkey, get_storage_at_block
\* returns the plain-state value stored under exactly the key, or zero.
C29_MissingChangesetFallsBack ==
    (HistDone /\ ChangesetMissing) =>
        out = Some(ExactPlain(db, req.address, req.key))

\* C29 witness: the changeset seek for the first later change lands on a
\* greater subkey of the same address and block, plain state holds a nonzero
\* word under the key, and the read returned that word, not the neighbour's.
C29_Witness ==
    /\ HistDone /\ ChangesetMissing
    /\ \E c \in db.changesets :
          /\ c.block = Min(LaterChanges(db, req.address, req.key, req.block))
          /\ c.address = req.address
          /\ c.key > req.key
          /\ out # Some(c.value)
    /\ ExactPlain(db, req.address, req.key) # ZERO
    /\ out = Some(ExactPlain(db, req.address, req.key))

\* C29, second case: the changeset seek finds nothing at all.
ChangesetSeekFindsNothing ==
    /\ HistDone /\ ChangesetMissing
    /\ ~ \E c \in db.changesets :
          /\ c.block = Min(LaterChanges(db, req.address, req.key, req.block))
          /\ c.address = req.address
    /\ out = Some(ExactPlain(db, req.address, req.key))

----------------------------------------------------------------------------
(* Specification SpecTicks: tick_math.rs on one tick of one tick spacing   *)

TickMathSpacings == {1, 10, 60, 200, 1000, 4000, 887272, 887273, 8388607, 2147483647}

\* The multiples of the spacing looked at: around zero, around the word
\* boundaries, and the outermost ones of the tick range.
TickMultiples(tick_spacing) ==
    {k * tick_spacing :
        k \in {j \in {TruncDiv(MIN_TICK, tick_spacing), TruncDiv(MIN_TICK, tick_spacing) + 1,
                      -513, -512, -257, -256, -255, -2, -1, 0, 1, 2, 255, 256, 257, 511, 512,
                      TruncDiv(MAX_TICK, tick_spacing) - 1, TruncDiv(MAX_TICK, tick_spacing)} :
                  /\ TruncDiv(MIN_TICK, tick_spacing) <= j
                  /\ j <= TruncDiv(MAX_TICK, tick_spacing)}}

TicksInit ==
    /\ db = EmptyDb
    /\ \E tick_spacing \in TickMathSpacings :
          \E tick \in TickMultiples(tick_spacing) :
             req = [op |-> "ticks", tick_spacing |-> tick_spacing, tick |-> tick]
    /\ pc = "idle"
    /\ out = [located |-> None, extracted |-> None]
    /\ reads = <<>>

\* tick_to_word_pos, tick_to_bit_pos and generate_word_positions for the tick
\* and spacing in req.
LocateTick ==
    /\ req.op = "ticks"
    /\ out.located = None
    /\ out' = [out EXCEPT !.located =
                  Some([word_pos |-> tick_to_word_pos(req.tick, req.tick_spacing),
                        bit_pos |-> tick_to_bit_pos(req.tick, req.tick_spacing),
                        word_positions |-> generate_word_positions(req.tick_spacing)])]
    /\ UNCHANGED <<db, req, pc, reads>>

\* extract_ticks_from_bitmap_u256 on the word that has the located bit set
\* and no other.
ExtractLocated ==
    /\ req.op = "ticks"
    /\ out.located # None
    /\ out.extracted = None
    /\ \E overflow_checks \in BOOLEAN :
          out' = [out EXCEPT !.extracted =
                     Some(The({IF e.overflow /\ overflow_checks
                               THEN Panic("attempt to multiply with overflow")
                               ELSE Ok(e.ticks)
                               : e \in {extract_ticks_from_bitmap_u256(
                                            out.located[1].word_pos,
                                            to_be_bytes({out.located[1].bit_pos}),
                                            req.tick_spacing)}}))]
    /\ UNCHANGED <<db, req, pc, reads>>

TicksNext == LocateTick \/ ExtractLocated

SpecTicks == TicksInit /\ [][TicksNext]_vars

----------------------------------------------------------------------------
(* Claims about the word positions *)

\* C30: for every tick spacing s >= 1 and every multiple t of s within
\* [MIN_TICK, MAX_TICK], tick_to_word_pos(t, s) is an element of
\* generate_word_positions(s), which is the contiguous ascending range from
\* the word position of MIN_TICK to that of MAX_TICK, and extracting the
\* single bit tick_to_bit_pos(t, s) of that word gives exactly [t].
C30_WordPositionsCoverTicks ==
    req.op = "ticks" =>
        /\ out.located # None =>
              LET located == out.located[1]
                  positions == located.word_positions
              IN /\ \E n \in 1..Len(positions) : positions[n] = located.word_pos
                 /\ located.bit_pos \in 0..255
                 /\ located.word_pos * 256 + located.bit_pos
                        = req.tick \div req.tick_spacing
                 /\ Len(positions) >= 1
                 /\ positions[1] = (-((-MIN_TICK) \div req.tick_spacing)) \div 256
                 /\ positions[Len(positions)] = (MAX_TICK \div req.tick_spacing) \div 256
                 /\ \A n \in 1..(Len(positions) - 1) : positions[n + 1] = positions[n] + 1
                 /\ \A n \in 1..Len(positions) : -32768 <= positions[n] /\ positions[n] <= 32767
        /\ out.extracted # None => out.extracted[1] = Ok(<<req.tick>>)

\* C30 witness: a negative tick in the last bit of a negative word was
\* located and extracted again.
C30_Witness ==
    /\ req.op = "ticks"
    /\ req.tick < 0
    /\ out.located # None /\ out.extracted # None
    /\ out.located[1].word_pos = -1
    /\ out.located[1].bit_pos = 255
    /\ out.extracted[1] = Ok(<<req.tick>>)


====
